---- MODULE Spec2Model ----
(***************************************************************************)
(* Model of the rule-based chat bot of src/lingling/lingling_bot_llm.py:   *)
(* the ConversationHandler wiring of build_app, the handlers, the free     *)
(* text parser of on_collect_context, the rule engines and the renderer.   *)
(*                                                                         *)
(* Conventions.                                                            *)
(*  - A Python str that the code inspects character by character (the user *)
(*    text) is a sequence of one-character strings.  A CJK character is    *)
(*    written by its code point: "U662F" (shi, yes), "U6709" (you, have),  *)
(*    "U5426" (fou, no), "UFF0C" (the full-width comma).                   *)
(*  - A Python float read from user text is a record [k, v]: k = "fin"     *)
(*    with v the value in hundredths, or k = "nan" / "inf" / "ninf".       *)
(*    A Python int is a TLA+ integer, a bool a BOOLEAN.                    *)
(*  - Probabilities, factors and adjustments are integers in units of      *)
(*    1/10000 (0.45 is 4500).                                              *)
(*  - None is the string "None"; a dict is a function on its keys.         *)
(***************************************************************************)
EXTENDS Integers, Sequences, FiniteSets, TLC

VARIABLES
    conv,       \* ConversationHandler state of each user's conversation
    user_data,  \* context.user_data of each user: a dict, maybe with "session"
    USE_LLM,    \* the module-level gate, fixed at import time
    ev,         \* the update handled by the last step
    out         \* the messages sent by the last step, in order

vars == <<conv, user_data, USE_LLM, ev, out>>

(***************************************************************************)
(* trans_excel.py, the workbook translator, is a program of its own: its   *)
(* module-level state (used_tokens, translation_cache) and the state of a  *)
(* process_workbook run.  The bot leaves these as they are at import, and  *)
(* the translator leaves the bot's variables alone.                        *)
(***************************************************************************)
VARIABLES
    cells,              \* all_cells: the cell values of the active sheet, row by row
    used_tokens,        \* the global token count
    translation_cache,  \* the global dict (text, task_context) -> str
    task_context,       \* task_context of the run, from detect_sheet_context
    pos,                \* the cell the loop of the run takes next (past the last one
                        \* when the loop is over); 0 when no run is on
    last                \* what the last step did, and the sheet as the run loaded it

xl_vars == <<cells, used_tokens, translation_cache, task_context, pos, last>>

NoStep == [how |-> "none", cell |-> 0, wb |-> << >>]

\* lines 32-34: the state after import
XlInit ==
    /\ cells = << >>
    /\ used_tokens = 0
    /\ translation_cache = << >>
    /\ task_context = << >>
    /\ pos = 0
    /\ last = NoStep

(***************************************************************************)
(* Conversation states (range(5)) and ConversationHandler.END.  A          *)
(* conversation that ended, or never started, has no key in the handler's  *)
(* table; the model writes END for it.                                     *)
(***************************************************************************)
CHOOSING_TOPIC == 0
MICRO_Q1 == 1
MICRO_Q2 == 2
MICRO_Q3 == 3
COLLECT_CONTEXT == 4
END == -1

None == "None"

TOPICS == {"career", "love", "study", "finance", "health", "growth", "oracle"}

(***************************************************************************)
(* Python str operations on character sequences.                           *)
(***************************************************************************)
IsSpace(c) == c \in {" "}

RECURSIVE LStrip(_)
LStrip(s) ==
    IF s # << >> /\ IsSpace(Head(s)) THEN LStrip(Tail(s)) ELSE s

RECURSIVE RStrip(_)
RStrip(s) ==
    IF s # << >> /\ IsSpace(s[Len(s)]) THEN RStrip(SubSeq(s, 1, Len(s) - 1)) ELSE s

\* str.strip()
Strip(s) == RStrip(LStrip(s))

RECURSIVE SplitAcc(_, _, _, _)
SplitAcc(s, i, cur, acc) ==
    IF i > Len(s) THEN Append(acc, cur)
    ELSE IF s[i] = "," THEN SplitAcc(s, i + 1, << >>, Append(acc, cur))
    ELSE SplitAcc(s, i + 1, Append(cur, s[i]), acc)

\* text.split(","): always at least one part
SplitComma(s) == SplitAcc(s, 1, << >>, << >>)

\* a split that keeps the blanks around each field; C10 fails of it
SplitPartsRaw(text) == SplitComma(text)

\* parts = [p.strip() for p in text.split(",")]
SplitParts(text) ==
    LET raw == SplitComma(text) IN [i \in 1..Len(raw) |-> Strip(raw[i])]

IsDigit(c) == c \in {"0", "1", "2", "3", "4", "5", "6", "7", "8", "9"}

DigitVal(c) ==
    CASE c = "0" -> 0 [] c = "1" -> 1 [] c = "2" -> 2 [] c = "3" -> 3
      [] c = "4" -> 4 [] c = "5" -> 5 [] c = "6" -> 6 [] c = "7" -> 7
      [] c = "8" -> 8 [] c = "9" -> 9

AllDigits(s) == \A i \in 1..Len(s) : IsDigit(s[i])

RECURSIVE DigitsVal(_)
DigitsVal(s) ==
    IF s = << >> THEN 0 ELSE 10 * DigitsVal(SubSeq(s, 1, Len(s) - 1)) + DigitVal(s[Len(s)])

\* str.lower() on the capital letters the tokens of the model use (those of
\* nan / inf / infinity and of yes)
LowerChar(c) ==
    CASE c = "N" -> "n" [] c = "A" -> "a" [] c = "I" -> "i" [] c = "F" -> "f"
      [] c = "T" -> "t" [] c = "Y" -> "y" [] c = "E" -> "e" [] c = "S" -> "s"
      [] OTHER -> c

Lower(s) == [i \in 1..Len(s) |-> LowerChar(s[i])]

\* position of the first "." of s, or 0
RECURSIVE FindDot(_, _)
FindDot(s, i) ==
    IF i > Len(s) THEN 0 ELSE IF s[i] = "." THEN i ELSE FindDot(s, i + 1)

Fin(v) == [k |-> "fin", v |-> v]
NaN == [k |-> "nan", v |-> 0]
Inf == [k |-> "inf", v |-> 0]
NegInf == [k |-> "ninf", v |-> 0]

\* the first two fraction digits as hundredths (further digits are below the
\* resolution of the model and never change a comparison with the integer
\* thresholds of the rule engines)
FracHundredths(f) ==
    IF Len(f) = 0 THEN 0
    ELSE IF Len(f) = 1 THEN 10 * DigitVal(f[1])
    ELSE 10 * DigitVal(f[1]) + DigitVal(f[2])

\* a conversion that reads every unreadable token as 0.0 instead of raising;
\* C2 fails of it
ParseFloatLenient(tok) == [ok |-> TRUE, val |-> [k |-> "fin", v |-> 0]]

(***************************************************************************)
(* float(token): [ok, val].  ok = FALSE is ValueError.  The grammar is     *)
(* Python's without exponents and digit-group underscores, which the       *)
(* texts of the model do not use: surrounding blanks, an optional sign,    *)
(* then nan, inf, infinity (any letter case) or digits with an optional    *)
(* point.                                                                  *)
(***************************************************************************)
\* the digits before and after the point at position dot (0: no point)
IntPart(body, dot) == IF dot = 0 THEN body ELSE SubSeq(body, 1, dot - 1)
FracPart(body, dot) == IF dot = 0 THEN << >> ELSE SubSeq(body, dot + 1, Len(body))

\* the value of an unsigned body: low is its lower case, ip and fp its digits
FloatOfParts(neg, low, ip, fp) ==
    IF low = <<"n", "a", "n">> THEN [ok |-> TRUE, val |-> NaN]
    ELSE IF low \in {<<"i", "n", "f">>, <<"i", "n", "f", "i", "n", "i", "t", "y">>}
    THEN [ok |-> TRUE, val |-> IF neg THEN NegInf ELSE Inf]
    ELSE IF AllDigits(ip) /\ AllDigits(fp) /\ Len(ip) + Len(fp) > 0
    THEN [ok |-> TRUE,
          val |-> Fin(IF neg THEN 0 - (100 * DigitsVal(ip) + FracHundredths(fp))
                      ELSE 100 * DigitsVal(ip) + FracHundredths(fp))]
    ELSE [ok |-> FALSE, val |-> NaN]

FloatOfBody(neg, body, dot) ==
    FloatOfParts(neg, Lower(body), IntPart(body, dot), FracPart(body, dot))

\* s is the token without its surrounding blanks
FloatOfStripped(s) ==
    IF s # << >> /\ Head(s) \in {"+", "-"}
    THEN FloatOfBody(Head(s) = "-", Tail(s), FindDot(Tail(s), 1))
    ELSE FloatOfBody(FALSE, s, FindDot(s, 1))

ParseFloat(tok) == FloatOfStripped(Strip(tok))

\* int(x) of a float: truncation toward zero; nan raises ValueError and an
\* infinity OverflowError (ok = FALSE)
IntOfFloat(x) ==
    IF x.k # "fin" THEN [ok |-> FALSE, val |-> 0]
    ELSE [ok |-> TRUE,
          val |-> IF x.v >= 0 THEN x.v \div 100 ELSE 0 - ((0 - x.v) \div 100)]

\* float comparisons; every comparison with nan is False
FLt(x, n) ==
    CASE x.k = "nan" -> FALSE
      [] x.k = "inf" -> FALSE
      [] x.k = "ninf" -> TRUE
      [] OTHER -> x.v < 100 * n

FGe(x, n) ==
    CASE x.k = "nan" -> FALSE
      [] x.k = "inf" -> TRUE
      [] x.k = "ninf" -> FALSE
      [] OTHER -> x.v >= 100 * n

FGt(x, n) ==
    CASE x.k = "nan" -> FALSE
      [] x.k = "inf" -> TRUE
      [] x.k = "ninf" -> FALSE
      [] OTHER -> x.v > 100 * n

(***************************************************************************)
(* The free-text parser of on_collect_context (the body of its try).       *)
(* A field converter returns [ok, val]; ok = FALSE is the exception that   *)
(* the handler's "except Exception" catches.                               *)
(***************************************************************************)
\* a field access without the length test, so a missing field raises
\* IndexError; C11 fails of it
\* a conversion that takes the default for a field that is no number instead
\* of raising; C24 fails of it
FieldFloatLenient(parts, i, default) ==
    IF Len(parts) >= i /\ ParseFloat(parts[i]).ok
    THEN ParseFloat(parts[i]) ELSE [ok |-> TRUE, val |-> default]

FieldFloatStrict(parts, i, default) ==
    IF Len(parts) >= i THEN ParseFloat(parts[i]) ELSE [ok |-> FALSE, val |-> default]

\* float(parts[i]) if len(parts) > i else default      (i counted from 1 here)
FieldFloat(parts, i, default) ==
    IF Len(parts) >= i THEN ParseFloat(parts[i]) ELSE [ok |-> TRUE, val |-> default]

\* int(float(parts[i])) if len(parts) > i else default
FieldInt(parts, i, default) ==
    IF Len(parts) >= i
    THEN LET f == ParseFloat(parts[i])
         IN  IF f.ok THEN IntOfFloat(f.val) ELSE [ok |-> FALSE, val |-> 0]
    ELSE [ok |-> TRUE, val |-> default]

\* parts[i] if len(parts) > i else default
FieldStr(parts, i, default) ==
    IF Len(parts) >= i THEN parts[i] ELSE default

\* the words the portfolio field is compared with: shi, you, yes, Yes, y, Y
AffirmativeWords ==
    {<<"U662F">>, <<"U6709">>, <<"y", "e", "s">>, <<"Y", "e", "s">>, <<"y">>, <<"Y">>}

Min2(a, b) == IF a < b THEN a ELSE b
Max2(a, b) == IF a > b THEN a ELSE b

ParseCareer(parts) ==
    LET years == FieldFloat(parts, 1, Fin(0))
        portfolio == FieldStr(parts, 2, <<"U5426">>)
        cash_buf == FieldFloat(parts, 3, Fin(0))
    IN  IF years.ok /\ cash_buf.ok
        THEN [status |-> "ok",
              upd |-> [years |-> years.val,
                       portfolio |-> portfolio \in AffirmativeWords,
                       cash_buffer_months |-> cash_buf.val]]
        ELSE [status |-> "error", upd |-> << >>]

ParseStudy(parts) ==
    LET cur_score == FieldFloat(parts, 1, Fin(0))
        hours == FieldFloat(parts, 2, Fin(0))
        ddl_days == FieldInt(parts, 3, 30)
    IN  IF cur_score.ok /\ hours.ok /\ ddl_days.ok
        THEN [status |-> "ok",
              upd |-> [current_score |-> cur_score.val,
                       hours_per_week |-> hours.val,
                       ddl_days |-> ddl_days.val]]
        ELSE [status |-> "error", upd |-> << >>]

ParseFinance(parts) ==
    LET exp_years == FieldFloat(parts, 1, Fin(0))
        max_dd == FieldFloat(parts, 2, Fin(1000))
        budget == FieldFloat(parts, 3, Fin(0))
    IN  IF exp_years.ok /\ max_dd.ok /\ budget.ok
        THEN [status |-> "ok",
              upd |-> [exp_years |-> exp_years.val,
                       max_drawdown_pct |-> max_dd.val,
                       budget_month |-> budget.val]]
        ELSE [status |-> "error", upd |-> << >>]

ParseLove(parts) ==
    LET status == FieldStr(parts, 1, <<"U672A", "U77E5">>)
        freq == FieldFloat(parts, 2, Fin(0))
        distance == FieldStr(parts, 3, <<"U540C", "U57CE">>)
    IN  IF freq.ok
        THEN [status |-> "ok",
              upd |-> [status |-> status,
                       comm_freq_per_week |-> freq.val,
                       distance |-> distance]]
        ELSE [status |-> "error", upd |-> << >>]

ParseHealth(parts) ==
    LET sleep_h == FieldFloat(parts, 1, Fin(700))
        sport == FieldFloat(parts, 2, Fin(0))
        stress == FieldInt(parts, 3, 3)
    IN  IF sleep_h.ok /\ sport.ok /\ stress.ok
        THEN [status |-> "ok",
              upd |-> [sleep_h |-> sleep_h.val,
                       sport_freq |-> sport.val,
                       stress |-> Max2(1, Min2(stress.val, 5))]]
        ELSE [status |-> "error", upd |-> << >>]

ParseGrowth(parts) ==
    LET goal == FieldStr(parts, 1, <<"U81EA", "U6211", "U63D0", "U5347">>)
        hours == FieldFloat(parts, 2, Fin(0))
        pain == FieldStr(parts, 3, <<"U4E0D", "U660E", "U786E">>)
    IN  IF hours.ok
        THEN [status |-> "ok",
              upd |-> [goal |-> goal,
                       hours_per_week |-> hours.val,
                       pain_point |-> pain]]
        ELSE [status |-> "error", upd |-> << >>]

\* lines 256-318: status "ok" (the dict to merge), "error" (an exception was
\* caught) or "unsupported" (the final else)
ParseContext(topic, rawtext) ==
    LET parts == SplitParts(Strip(rawtext))
    IN  CASE topic = "career" -> ParseCareer(parts)
          [] topic = "study" -> ParseStudy(parts)
          [] topic = "finance" -> ParseFinance(parts)
          [] topic = "love" -> ParseLove(parts)
          [] topic = "health" -> ParseHealth(parts)
          [] topic = "growth" -> ParseGrowth(parts)
          [] OTHER -> [status |-> "unsupported", upd |-> << >>]

\* an update that keeps the value of a key the dict already holds, as
\* setdefault would: C23 fails of it
DictUpdateKeep(d, upd) ==
    [k \in (DOMAIN d) \cup (DOMAIN upd) |-> IF k \in DOMAIN d THEN d[k] ELSE upd[k]]

\* dict.update
DictUpdate(d, upd) ==
    [k \in (DOMAIN d) \cup (DOMAIN upd) |-> IF k \in DOMAIN upd THEN upd[k] ELSE d[k]]

\* dict.get(key, default)
DictGet(d, key, default) == IF key \in DOMAIN d THEN d[key] ELSE default

(***************************************************************************)
(* Number formatting: f"{x:.2f}" and f"{x:+.2f}" of a value in 1/10000.    *)
(* Every value the engines format is a whole number of hundredths, so the  *)
(* rounding step (to the nearest hundredth, a tie to the even one) is      *)
(* exact for them.                                                         *)
(***************************************************************************)
Abs(x) == IF x < 0 THEN 0 - x ELSE x

RoundHundredths(x) ==
    LET q == x \div 100
        r == x % 100
    IN  IF r < 50 THEN q
        ELSE IF r > 50 THEN q + 1
        ELSE IF q % 2 = 0 THEN q ELSE q + 1

DigitChar(d) ==
    CASE d = 0 -> "0" [] d = 1 -> "1" [] d = 2 -> "2" [] d = 3 -> "3"
      [] d = 4 -> "4" [] d = 5 -> "5" [] d = 6 -> "6" [] d = 7 -> "7"
      [] d = 8 -> "8" [] d = 9 -> "9"

RECURSIVE IntDigits(_)
IntDigits(n) ==
    IF n < 10 THEN <<DigitChar(n)>> ELSE Append(IntDigits(n \div 10), DigitChar(n % 10))

\* one decimal instead of two, f"{x:.1f}"; C7 fails of it
FmtAbs1(x) ==
    LET t == (Abs(x) + 500) \div 1000
    IN  IntDigits(t \div 10) \o <<".", DigitChar(t % 10)>>

FmtAbs2(x) ==
    LET h == RoundHundredths(Abs(x))
    IN  IntDigits(h \div 100) \o <<".", DigitChar((h % 100) \div 10), DigitChar(h % 10)>>

\* f"{x:.2f}"
Fmt2(x) == IF x < 0 THEN <<"-">> \o FmtAbs2(x) ELSE FmtAbs2(x)

\* f"{x:+.2f}"
FmtSigned2(x) == IF x < 0 THEN <<"-">> \o FmtAbs2(x) ELSE <<"+">> \o FmtAbs2(x)

(***************************************************************************)
(* Float arithmetic of the engines, in units of 1/10000.                   *)
(*                                                                         *)
(* round(prob, 2) rounds the IEEE-754 double, not the decimal value: a     *)
(* decimal tie (..5 in the third place) goes to the side on which the      *)
(* double lies.  For the constants of the engines the double lies at or    *)
(* above the tie (and round() gives the upper hundredth) on every path     *)
(* but two, both in finance_rule_engine:                                   *)
(*     0.50 * 0.95 + -0.02 = 0.45499999999999996   -> round 0.45           *)
(*     0.50 * 0.95 +  0.02 = 0.495 (0.49499999...) -> round 0.49           *)
(* A path is <<baseline, factor, adjustments>>.                            *)
(***************************************************************************)
\* a * b of two values in 1/10000
FMul(a, b) == (a * b) \div 10000

RECURSIVE SumSeq(_)
SumSeq(s) == IF s = << >> THEN 0 ELSE Head(s) + SumSeq(Tail(s))

IeeeLowTies == {<<5000, 9500, <<-200>>>>, <<5000, 9500, <<200>>>>}

\* a clamp written in percent, max(5, min(95, x)); C6 fails of it
ClampPct(x) == IF x < 50000 THEN 50000 ELSE IF x > 950000 THEN 950000 ELSE x

\* max(0.05, min(0.95, x))
Clamp(x) == Max2(500, Min2(9500, x))

\* round(x, 2) for x >= 0 computed along path
PyRound2(x, path) ==
    LET r == x % 100
    IN  IF r < 50 THEN x - r
        ELSE IF r > 50 THEN x - r + 100
        ELSE IF path \in IeeeLowTies THEN x - 50 ELSE x + 50

\* round(max(0.05, min(0.95, baseline * factor + adj1 + ...)), 2)
EngineProb(baseline, factor, adjs) ==
    PyRound2(Clamp(FMul(baseline, factor) + SumSeq(adjs)), <<baseline, factor, adjs>>)

(***************************************************************************)
(* Rule engines.  A result is the dict the engine returns; every fixed     *)
(* Chinese sentence is one opaque string (an English gloss).  explain is   *)
(* a character sequence in which every label is one element and every     *)
(* number is spelled character by character.                               *)
(***************************************************************************)
\* sess.time_horizon or "3m"
HorizonOr3m(sess) == IF sess.time_horizon \in {None, ""} THEN "3m" ELSE sess.time_horizon

CareerFactor(years) ==
    IF FLt(years, 1) THEN FMul(10000, 9000)
    ELSE IF FLt(years, 3) THEN FMul(10000, 10000)
    ELSE IF FLt(years, 5) THEN FMul(10000, 10500)
    ELSE FMul(10000, 11000)

CareerAdjCash(cash_buf) ==
    IF FLt(cash_buf, 3) THEN -300
    ELSE IF FGe(cash_buf, 6) THEN 300
    ELSE 0

\* a budget branch one suggestion short; C8 fails of it
CareerActionsShort(investment) ==
    IF investment = "time"
    THEN <<"send at least 20 tailored resumes this week",
           "polish 1 portfolio case and publish it",
           "ask 3 seniors of the trade for a 15 minute talk">>
    ELSE <<"spend a small budget on a portfolio page or resume design",
           "buy 1 targeted course and finish 30% in 7 days">>

CareerActions(investment) ==
    IF investment = "time"
    THEN <<"send at least 20 tailored resumes this week",
           "polish 1 portfolio case and publish it",
           "ask 3 seniors of the trade for a 15 minute talk">>
    ELSE <<"spend a small budget on a portfolio page or resume design",
           "buy 1 targeted course and finish 30% in 7 days",
           "join 1 trade event and make 5 new contacts">>

career_rule_engine(sess) ==
    LET baseline == 4500
        years == DictGet(sess.context_vars, "years", Fin(0))
        portfolio == DictGet(sess.context_vars, "portfolio", FALSE)
        cash_buf == DictGet(sess.context_vars, "cash_buffer_months", Fin(0))
        factor == CareerFactor(years)
        adj_portfolio == IF portfolio THEN 800 ELSE 0
        adj_cash == CareerAdjCash(cash_buf)
        orientation == DictGet(sess.micro, "orientation", "stable")
        investment == DictGet(sess.micro, "investment", "time")
    IN  [title |-> "career divination",
         horizon |-> HorizonOr3m(sess),
         prob |-> EngineProb(baseline, factor, <<adj_portfolio, adj_cash>>),
         explain |-> <<"baseline">> \o Fmt2(baseline)
                     \o <<" x experience factor">> \o Fmt2(factor)
                     \o <<" + portfolio">> \o FmtSigned2(adj_portfolio)
                     \o <<" + cash buffer">> \o FmtSigned2(adj_cash),
         opportunity |-> IF orientation = "break"
                         THEN "a bolder move may open an unexpected window"
                         ELSE "digging deeper in the current track pays sooner",
         risk |-> IF orientation = "break"
                  THEN "chasing the new may neglect steady growth"
                  ELSE "too much caution may miss the upturn",
         actions |-> CareerActions(investment)]

StudyFactor(cur) ==
    IF FGe(cur, 85) THEN FMul(10000, 11000)
    ELSE IF FGe(cur, 70) THEN FMul(10000, 10000)
    ELSE FMul(10000, 9500)

StudyAdjHours(hours) ==
    IF FGe(hours, 14) THEN 800
    ELSE IF FGe(hours, 7) THEN 400
    ELSE 0

study_rule_engine(sess) ==
    LET baseline == 4000
        cur == DictGet(sess.context_vars, "current_score", Fin(0))
        hours == DictGet(sess.context_vars, "hours_per_week", Fin(0))
        ddl == DictGet(sess.context_vars, "ddl_days", 30)
        factor == StudyFactor(cur)
        adj_hours == StudyAdjHours(hours)
        adj_ddl == IF ddl < 14 THEN -500 ELSE 0
    IN  [title |-> "study divination",
         horizon |-> HorizonOr3m(sess),
         prob |-> EngineProb(baseline, factor, <<adj_hours, adj_ddl>>),
         explain |-> <<"baseline">> \o Fmt2(baseline)
                     \o <<" x level factor">> \o Fmt2(factor)
                     \o <<" + hours">> \o FmtSigned2(adj_hours)
                     \o <<" + deadline">> \o FmtSigned2(adj_ddl),
         opportunity |-> "a steady rhythm lifts the floor of the score fast",
         risk |-> "deadline anxiety erodes focus",
         actions |-> <<"pomodoro: 2 or 3 deep blocks of 25 min a day",
                       "review past errors and lock 2 weak points",
                       "one 90 min mock test a week">>]

FinanceFactor(expy) ==
    IF FLt(expy, 1) THEN FMul(10000, 9500)
    ELSE IF FGt(expy, 3) THEN FMul(10000, 10500)
    ELSE 10000

FinanceAdjDd(dd) ==
    IF FLt(dd, 8) THEN -200
    ELSE IF FGt(dd, 25) THEN -200
    ELSE 200

finance_rule_engine(sess) ==
    LET baseline == 5000
        expy == DictGet(sess.context_vars, "exp_years", Fin(0))
        dd == DictGet(sess.context_vars, "max_drawdown_pct", Fin(1000))
        budget == DictGet(sess.context_vars, "budget_month", Fin(0))
        factor == FinanceFactor(expy)
        adj_dd == FinanceAdjDd(dd)
    IN  [title |-> "finance divination",
         horizon |-> HorizonOr3m(sess),
         prob |-> EngineProb(baseline, factor, <<adj_dd>>),
         explain |-> <<"baseline">> \o Fmt2(baseline)
                     \o <<" x experience factor">> \o Fmt2(factor)
                     \o <<" + risk appetite">> \o FmtSigned2(adj_dd),
         opportunity |-> "disciplined strategies calibrate expectations",
         risk |-> "too high or too low a risk appetite hurts returns",
         actions |-> <<"set a monthly automatic investment below 20% of income",
                       "hold 3 to 5 weakly correlated assets and rebalance",
                       "write down the stop-loss line and keep it">>]

\* a template engine with one baseline for every topic; C9 fails of it
generic_template_engine_flat(sess, title, baseline) ==
    [title |-> title,
     horizon |-> HorizonOr3m(sess),
     prob |-> 5200,
     explain |-> <<"baseline">> \o Fmt2(5200),
     opportunity |-> "slow steady change shows within 2 to 4 weeks",
     risk |-> "mood swings may break the rhythm",
     actions |-> <<"note what lifted your mood today",
                   "thank a friend you have not talked to for long",
                   "set one small goal for the week">>]

\* prob = round(max(0.05, min(0.95, baseline)), 2): no product, no sum
generic_template_engine(sess, title, baseline) ==
    [title |-> title,
     horizon |-> HorizonOr3m(sess),
     prob |-> PyRound2(Clamp(baseline), <<baseline>>),
     explain |-> <<"baseline">> \o Fmt2(baseline),
     opportunity |-> "slow steady change shows within 2 to 4 weeks",
     risk |-> "mood swings may break the rhythm",
     actions |-> <<"note what lifted your mood today",
                   "thank a friend you have not talked to for long",
                   "set one small goal for the week">>]

(***************************************************************************)
(* Renderer.  A text is a sequence of lines and a line a sequence of       *)
(* strings (fixed phrases as one string each, numbers character by         *)
(* character).                                                             *)
(***************************************************************************)
\* horizon_map.get(res.get("horizon", "3m"), three months)
HorizonLabel(h) ==
    CASE h = "1m" -> "this month"
      [] h = "3m" -> "three months"
      [] h = "6m" -> "half a year"
      [] OTHER -> "three months"

ActionLines(actions) == [i \in 1..Len(actions) |-> <<"- ", actions[i]>>]

assemble_base_markdown(res) ==
    << <<res.title, " | time window: ", HorizonLabel(res.horizon)>>,
       <<"[conclusion] success probability: ">> \o Fmt2(res.prob),
       <<"[basis] ">> \o res.explain,
       <<"[opportunity] ", res.opportunity>>,
       <<"[risk] ", res.risk>>,
       <<"[three actions]">> >>
    \o ActionLines(res.actions)

\* the four (theme, hint) pairs of generate_oracle
OracleThemes ==
    << <<"nature and recovery", "leave yourself room to breathe">>,
       <<"starlight and inspiration", "write down a sudden idea and act 15 minutes">>,
       <<"action and breakthrough", "light today's spark with one small goal">>,
       <<"order and convergence", "clear the desk and the todo list once">> >>

\* an oracle that prints a second theme where the hint belongs; C5 fails of it
generate_oracle_two(sess, pick) ==
    LET theme == OracleThemes[pick][1]
        other == OracleThemes[(pick % 4) + 1][1]
    IN  << <<"[oracle guidance]">>,
           <<"theme: ", theme>>,
           <<"opportunity: ", other>>,
           <<"risk: ", "distraction and hesitation dilute the starlight">>,
           <<"three actions:">>,
           <<"- ", "write today's most important thing and do 25 minutes of it">>,
           <<"- ", "send a sincere message to someone who may help">>,
           <<"- ", "drink water or take 10 deep breaths">>,
           <<"for more, send me a topic: career/love/study/finance/health/growth">> >>

\* generate_oracle with random.choice(themes) picking themes[pick]
generate_oracle(sess, pick) ==
    LET theme == OracleThemes[pick][1]
        hint == OracleThemes[pick][2]
        actions == <<"write today's most important thing and do 25 minutes of it",
                     "send a sincere message to someone who may help",
                     "drink water or take 10 deep breaths">>
    IN  << <<"[oracle guidance]">>,
           <<"theme: ", theme>>,
           <<"opportunity: ", hint>>,
           <<"risk: ", "distraction and hesitation dilute the starlight">>,
           <<"three actions:">>,
           <<"- ", actions[1]>>,
           <<"- ", actions[2]>>,
           <<"- ", actions[3]>>,
           <<"for more, send me a topic: career/love/study/finance/health/growth">> >>

\* the dict generate_by_topic hands to the renderer; << >> for the final else
EngineResult(sess) ==
    CASE sess.topic = "career" -> career_rule_engine(sess)
      [] sess.topic = "study" -> study_rule_engine(sess)
      [] sess.topic = "finance" -> finance_rule_engine(sess)
      [] sess.topic = "love" -> generic_template_engine(sess, "love divination", 5500)
      [] sess.topic = "health" -> generic_template_engine(sess, "health divination", 5200)
      [] sess.topic = "growth" -> generic_template_engine(sess, "growth divination", 5300)
      [] OTHER -> << >>

generate_by_topic(sess) ==
    LET res == EngineResult(sess)
    IN  IF res = << >> THEN << <<"this topic is not supported.">> >>
        ELSE assemble_base_markdown(res)

(***************************************************************************)
(* render_with_llm_or_plain.  The answer of the rewriting service is not   *)
(* determined by the program: llm is "fail" (the call or the reading of    *)
(* its answer raises), "same" (the answer is the base text), "altered"     *)
(* (an answer with other numbers and an action dropped) or "blank" (an     *)
(* answer of white space only).                                            *)
(***************************************************************************)
\* a call that neither returns nor raises: no outcome at all; C18 fails of it
LLMOutcomesNever == {}

LLMOutcomes == {"fail", "same", "altered", "blank"}

AlteredText(base_text) ==
    << <<"the stars whisper: success probability: ", "0", ".", "9", "9">> >>
    \o (IF Len(base_text) > 1 THEN SubSeq(base_text, 1, Len(base_text) - 1) ELSE << >>)

LLMContent(base_text, llm) ==
    CASE llm = "same" -> base_text
      [] llm = "altered" -> AlteredText(base_text)
      [] OTHER -> << >>

\* a rendering that calls the service whatever the gate says; C19 fails of it
RewriteCallUngated(use_llm, llm) == llm

\* a fallback that returns the failure notice alone; C16 fails of it
render_notice_only(base_text, use_llm, llm) ==
    IF ~use_llm
    THEN base_text \o << << >>, <<"(hint: OPENAI_API_KEY is not set, using the base text.)">> >>
    ELSE IF llm = "fail"
    THEN << <<"(LLM rendering failed, fell back to the base text: ", "e", ")">> >>
    ELSE LLMContent(base_text, llm)

\* what client.chat.completions.create did for one rendering: "none" when the
\* gate is off (the function returns at line 536 before the call)
RewriteCall(use_llm, llm) == IF ~use_llm THEN "none" ELSE llm

render_with_llm_or_plain(base_text, use_llm, llm) ==
    IF ~use_llm
    THEN base_text \o << << >>, <<"(hint: OPENAI_API_KEY is not set, using the base text.)">> >>
    ELSE IF llm = "fail"
    THEN base_text \o << << >>, <<"(LLM rendering failed, fell back to the base text: ", "e", ")">> >>
    ELSE LLMContent(base_text, llm)

(***************************************************************************)
(* Updates and messages.                                                   *)
(* An update is [kind, cmd, data, text]: a command (/start, /menu,         *)
(* /cancel, /help), a button callback whose data is tokenised at its first *)
(* colon (<<"topic", ":", "career">> is "topic:career") or a text message  *)
(* that is not a command.                                                  *)
(* A sent message is [kind, text, base, res]: base is the renderer's text  *)
(* of a result message and res the engine's dict it was rendered from.     *)
(***************************************************************************)
Command(c) == [kind |-> "command", cmd |-> c, data |-> << >>, text |-> << >>]
CallbackQuery(d) == [kind |-> "callback", cmd |-> "", data |-> d, text |-> << >>]
TextMessage(t) == [kind |-> "text", cmd |-> "", data |-> << >>, text |-> t]

Msg(kind, phrase) ==
    [kind |-> kind, text |-> << <<phrase>> >>, base |-> << >>, res |-> << >>]

ResultMsg(final_text, base_text, res) ==
    [kind |-> "result", text |-> final_text, base |-> base_text, res |-> res]

\* data.startswith(prefix + ":"), and re.match("^" + prefix + ":.*", data)
StartsWith(data, prefix) ==
    Len(data) >= 2 /\ data[1] = prefix /\ data[2] = ":"

\* data.split(":", 1)[1]
AfterColon(data) == IF Len(data) >= 3 THEN data[3] ELSE ""

\* Session(user_id=...)
NewSession(uid) ==
    [user_id |-> uid, topic |-> None, question |-> None, time_horizon |-> None,
     micro |-> << >>, context_vars |-> << >>]

HasSession(ud) == "session" \in DOMAIN ud

Ret(state) == <<state>>
RetNone == << >>

(***************************************************************************)
(* Handlers.  Each returns [ret, ud, out]: the returned state (<<s>>, or   *)
(* << >> for None), the user's user_data afterwards and the messages sent. *)
(***************************************************************************)
start(uid, ud) ==
    [ret |-> Ret(CHOOSING_TOPIC),
     ud |-> DictUpdate(ud, [session |-> NewSession(uid)]),
     out |-> <<Msg("welcome", "welcome, choose a topic")>>]

menu(ud) ==
    [ret |-> Ret(CHOOSING_TOPIC),
     ud |-> ud,
     out |-> <<Msg("menu", "choose a topic to begin")>>]

\* lines 149-155: sess already holds the topic, base_text is the oracle text
SendOracle(ud, sess, base_text, use_llm, llm) ==
    [ret |-> Ret(CHOOSING_TOPIC),
     ud |-> DictUpdate(ud, [session |-> sess]),
     out |-> <<Msg("draw", "drawing a guidance for you"),
               ResultMsg(render_with_llm_or_plain(base_text, use_llm, llm),
                         base_text, << >>),
               Msg("more", "want to go deeper? pick a topic")>>]

on_topic_callback(uid, ud, data, use_llm, pick, llm) ==
    LET sess == IF HasSession(ud) THEN ud.session ELSE NewSession(uid)
        topic == AfterColon(data)
        sess1 == [sess EXCEPT !.topic = topic]
    IN  IF StartsWith(data, "topic")
        THEN IF topic = "oracle"
             THEN SendOracle(ud, sess1, generate_oracle(sess1, pick), use_llm, llm)
             ELSE [ret |-> Ret(MICRO_Q1),
                   ud |-> DictUpdate(ud, [session |-> sess1]),
                   out |-> <<Msg("q1", "Q1: which time window?")>>]
        ELSE [ret |-> Ret(CHOOSING_TOPIC),
              ud |-> DictUpdate(ud, [session |-> sess]),
              out |-> << >>]

\* a first question that jumps over the second; C1 fails of it
on_micro_q1_skip(ud, data) ==
    IF ~HasSession(ud) THEN [ret |-> Ret(CHOOSING_TOPIC), ud |-> ud, out |-> << >>]
    ELSE IF StartsWith(data, "t")
    THEN [ret |-> Ret(MICRO_Q3),
          ud |-> [ud EXCEPT !.session.time_horizon = AfterColon(data)],
          out |-> <<Msg("q2", "Q2: stable or break?")>>]
    ELSE [ret |-> Ret(MICRO_Q1), ud |-> ud, out |-> << >>]

on_micro_q1(ud, data) ==
    IF ~HasSession(ud) THEN [ret |-> Ret(CHOOSING_TOPIC), ud |-> ud, out |-> << >>]
    ELSE IF StartsWith(data, "t")
    THEN [ret |-> Ret(MICRO_Q2),
          ud |-> [ud EXCEPT !.session.time_horizon = AfterColon(data)],
          out |-> <<Msg("q2", "Q2: stable or break?")>>]
    ELSE [ret |-> Ret(MICRO_Q1), ud |-> ud, out |-> << >>]

\* a second question that moves on without storing the answer; C14 fails
\* of it
on_micro_q2_norecord(ud, data) ==
    IF ~HasSession(ud) THEN [ret |-> Ret(CHOOSING_TOPIC), ud |-> ud, out |-> << >>]
    ELSE IF StartsWith(data, "ori")
    THEN [ret |-> Ret(MICRO_Q3), ud |-> ud,
          out |-> <<Msg("q3", "Q3: time or budget?")>>]
    ELSE [ret |-> Ret(MICRO_Q2), ud |-> ud, out |-> << >>]

on_micro_q2(ud, data) ==
    IF ~HasSession(ud) THEN [ret |-> Ret(CHOOSING_TOPIC), ud |-> ud, out |-> << >>]
    ELSE IF StartsWith(data, "ori")
    THEN [ret |-> Ret(MICRO_Q3),
          ud |-> [ud EXCEPT !.session.micro =
                      DictUpdate(@, [orientation |-> AfterColon(data)])],
          out |-> <<Msg("q3", "Q3: time or budget?")>>]
    ELSE [ret |-> Ret(MICRO_Q2), ud |-> ud, out |-> << >>]

\* prompts.get(topic, default)
ContextPrompt(topic) ==
    IF topic \in {"career", "study", "finance", "love", "health", "growth"}
    THEN <<"give 3 facts in the format of topic ", topic>>
    ELSE <<"please give the information asked for">>

on_micro_q3(ud, data) ==
    IF ~HasSession(ud) THEN [ret |-> Ret(CHOOSING_TOPIC), ud |-> ud, out |-> << >>]
    ELSE IF StartsWith(data, "inv")
    THEN [ret |-> Ret(COLLECT_CONTEXT),
          ud |-> [ud EXCEPT !.session.micro =
                      DictUpdate(@, [investment |-> AfterColon(data)])],
          out |-> <<[kind |-> "prompt", text |-> <<ContextPrompt(ud.session.topic)>>,
                     base |-> << >>, res |-> << >>]>>]
    ELSE [ret |-> Ret(MICRO_Q3), ud |-> ud, out |-> << >>]

\* persona = sess.topic or "generic" only selects nothing in the model: the
\* prompt sent to the service does not depend on it
\* lines 320-330: sess already holds the parsed context_vars
SendResult(ud, sess, base_text, use_llm, llm) ==
    [ret |-> Ret(CHOOSING_TOPIC),
     ud |-> [ud EXCEPT !.session = sess],
     out |-> <<Msg("thinking", "received, let me gaze at the leaves"),
               ResultMsg(render_with_llm_or_plain(base_text, use_llm, llm),
                         base_text, EngineResult(sess)),
               Msg("more", "another topic?")>>]

\* the final else answered like a caught exception: the re-prompt, and the
\* state stays; C21 fails of it
AfterParseReprompt(ud, parsed, use_llm, llm) ==
    CASE parsed.status \in {"unsupported", "error"} ->
           [ret |-> Ret(COLLECT_CONTEXT), ud |-> ud,
            out |-> <<Msg("reprompt", "the format looks wrong, send it again as in the example")>>]
      [] OTHER ->
           SendResult(ud,
                      [ud.session EXCEPT !.context_vars = DictUpdate(@, parsed.upd)],
                      generate_by_topic([ud.session EXCEPT
                                             !.context_vars = DictUpdate(@, parsed.upd)]),
                      use_llm, llm)

\* lines 313-330: what the handler does with the outcome of the parse
AfterParse(ud, parsed, use_llm, llm) ==
    CASE parsed.status = "unsupported" ->
           [ret |-> Ret(CHOOSING_TOPIC), ud |-> ud,
            out |-> <<Msg("unsupported", "topic not supported, /menu to choose again")>>]
      [] parsed.status = "error" ->
           [ret |-> Ret(COLLECT_CONTEXT), ud |-> ud,
            out |-> <<Msg("reprompt", "the format looks wrong, send it again as in the example")>>]
      [] OTHER ->
           SendResult(ud,
                      [ud.session EXCEPT !.context_vars = DictUpdate(@, parsed.upd)],
                      generate_by_topic([ud.session EXCEPT
                                             !.context_vars = DictUpdate(@, parsed.upd)]),
                      use_llm, llm)

on_collect_context(ud, rawtext, use_llm, llm) ==
    IF ~HasSession(ud)
    THEN [ret |-> Ret(END), ud |-> ud,
          out |-> <<Msg("reset", "the session was reset, /start again")>>]
    ELSE AfterParse(ud, ParseContext(ud.session.topic, rawtext), use_llm, llm)

help_cmd(ud) ==
    [ret |-> RetNone, ud |-> ud,
     out |-> <<Msg("help", "send /menu for the main menu")>>]

\* a /cancel that answers but returns nothing, so the state stays; C4 fails
\* of it
cancel_keep(ud) ==
    [ret |-> RetNone, ud |-> ud,
     out |-> <<Msg("ended", "the conversation ended, /start to begin again")>>]

cancel(ud) ==
    [ret |-> Ret(END), ud |-> ud,
     out |-> <<Msg("ended", "the conversation ended, /start to begin again")>>]

(***************************************************************************)
(* build_app: the ConversationHandler.  With allow_reentry the entry       *)
(* points are tried first in every state; then the handlers of the current *)
(* state; then the fallbacks.  Outside a conversation only the entry       *)
(* points are tried, and /help falls to the application's own handler.     *)
(* Dispatch names the handler that takes the update, or "none".            *)
(***************************************************************************)
EntryPoint(e) ==
    IF e.kind = "command" /\ e.cmd = "start" THEN "start"
    ELSE IF e.kind = "command" /\ e.cmd = "menu" THEN "menu"
    ELSE "none"

\* handlers registered without regard to the state; C3 fails of it
StateHandlerLoose(state, e) ==
    IF e.kind = "callback" /\ StartsWith(e.data, "topic") THEN "on_topic_callback"
    ELSE IF e.kind = "callback" /\ StartsWith(e.data, "t") THEN "on_micro_q1"
    ELSE IF e.kind = "callback" /\ StartsWith(e.data, "ori") THEN "on_micro_q2"
    ELSE IF e.kind = "callback" /\ StartsWith(e.data, "inv") THEN "on_micro_q3"
    ELSE IF e.kind = "text" /\ state = COLLECT_CONTEXT THEN "on_collect_context"
    ELSE "none"

StateHandler(state, e) ==
    CASE state = CHOOSING_TOPIC ->
            IF e.kind = "callback" /\ StartsWith(e.data, "topic") THEN "on_topic_callback"
            ELSE IF e.kind = "command" /\ e.cmd = "menu" THEN "menu"
            ELSE "none"
      [] state = MICRO_Q1 ->
            IF e.kind = "callback" /\ StartsWith(e.data, "t") THEN "on_micro_q1" ELSE "none"
      [] state = MICRO_Q2 ->
            IF e.kind = "callback" /\ StartsWith(e.data, "ori") THEN "on_micro_q2" ELSE "none"
      [] state = MICRO_Q3 ->
            IF e.kind = "callback" /\ StartsWith(e.data, "inv") THEN "on_micro_q3" ELSE "none"
      [] state = COLLECT_CONTEXT ->
            IF e.kind = "text" THEN "on_collect_context" ELSE "none"
      [] OTHER -> "none"

Fallback(e) ==
    IF e.kind = "command" /\ e.cmd = "cancel" THEN "cancel"
    ELSE IF e.kind = "command" /\ e.cmd = "help" THEN "help_cmd"
    ELSE "none"

Dispatch(state, e) ==
    IF EntryPoint(e) # "none" THEN EntryPoint(e)
    ELSE IF state = END
    THEN (IF e.kind = "command" /\ e.cmd = "help" THEN "help_cmd" ELSE "none")
    ELSE IF StateHandler(state, e) # "none" THEN StateHandler(state, e)
    ELSE Fallback(e)

\* the callback of handler h on update e
RunHandler(h, uid, ud, e, use_llm, pick, llm) ==
    CASE h = "start" -> start(uid, ud)
      [] h = "menu" -> menu(ud)
      [] h = "on_topic_callback" -> on_topic_callback(uid, ud, e.data, use_llm, pick, llm)
      [] h = "on_micro_q1" -> on_micro_q1(ud, e.data)
      [] h = "on_micro_q2" -> on_micro_q2(ud, e.data)
      [] h = "on_micro_q3" -> on_micro_q3(ud, e.data)
      [] h = "on_collect_context" -> on_collect_context(ud, e.text, use_llm, llm)
      [] h = "cancel" -> cancel(ud)
      [] h = "help_cmd" -> help_cmd(ud)
      [] OTHER -> [ret |-> RetNone, ud |-> ud, out |-> << >>]

\* ConversationHandler._update_state: None keeps the state, END drops the key
UpdateState(state, ret) == IF ret = RetNone THEN state ELSE ret[1]

(***************************************************************************)
(* Inputs of the model.                                                    *)
(***************************************************************************)
Users == {"u1"}

\* callback payloads the transport may deliver: the buttons of the bot and
\* payloads no button carries
Payloads ==
    {<<"topic", ":", "career">>, <<"topic", ":", "study">>, <<"topic", ":", "love">>,
     <<"topic", ":", "oracle">>, <<"topic", ":", "xyz">>,
     <<"t", ":", "1m">>, <<"t", ":", "9m">>,
     <<"ori", ":", "stable">>, <<"ori", ":", "break">>,
     <<"inv", ":", "time">>, <<"inv", ":", "budget">>,
     <<"noop">>}

\* "3, <shi>, 4"
TxtCareer == <<"3", ",", " ", "U662F", ",", " ", "4">>
\* "68, 10, 45"
TxtStudy == <<"6", "8", ",", " ", "1", "0", ",", " ", "4", "5">>
\* "x, <shi>, 4"
TxtBad == <<"x", ",", " ", "U662F", ",", " ", "4">>

Texts == {TxtCareer, TxtStudy, TxtBad}

\* context_vars is never cleared: the model stops a text that would leave
\* more than MaxCtxKeys keys in it
MaxCtxKeys == 6

OraclePicks == 1..Len(OracleThemes)

\* ev is the update handled last: its user and content, the handler that
\* took it, the state it was taken in and what the rewriting call did in it
NoEvent ==
    [user |-> "", kind |-> "none", cmd |-> "", data |-> << >>, text |-> << >>,
     handler |-> "none", from |-> END, llm |-> "none"]

\* a handler renders exactly when it sends a result message
Rendered(o) == \E i \in 1..Len(o) : o[i].kind = "result"

Init ==
    /\ conv = [u \in Users |-> END]
    /\ user_data = [u \in Users |-> << >>]
    /\ USE_LLM \in BOOLEAN
    /\ ev = NoEvent
    /\ out = << >>
    /\ XlInit

CtxKeysAfter(r) ==
    IF HasSession(r.ud) THEN Cardinality(DOMAIN r.ud.session.context_vars) ELSE 0

\* the choices a handler leaves open: random.choice in generate_oracle and
\* the answer of the rewriting service (called only when USE_LLM)
PicksOf(h, e) ==
    IF h = "on_topic_callback" /\ AfterColon(e.data) = "oracle" THEN OraclePicks ELSE {1}

OutcomesOf(h) ==
    IF USE_LLM /\ h \in {"on_topic_callback", "on_collect_context"}
    THEN LLMOutcomes ELSE {"same"}

\* one conversation state and one user_data for the whole process, as a
\* module-level global would be: C20 fails of it
DeliverShared(u, e) ==
    LET h == Dispatch(conv[u], e)
    IN  \E pick \in PicksOf(h, e), llm \in OutcomesOf(h) :
            \E r \in {RunHandler(h, u, user_data[u], e, USE_LLM, pick, llm)} :
                /\ CtxKeysAfter(r) <= MaxCtxKeys
                /\ conv' = [x \in DOMAIN conv |-> UpdateState(conv[u], r.ret)]
                /\ user_data' = [x \in DOMAIN user_data |-> r.ud]
                /\ ev' = [user |-> u, kind |-> e.kind, cmd |-> e.cmd, data |-> e.data,
                          text |-> e.text, handler |-> h, from |-> conv[u],
                          llm |-> IF Rendered(r.out) THEN RewriteCall(USE_LLM, llm)
                                  ELSE "none"]
                /\ out' = r.out
                /\ UNCHANGED <<USE_LLM, xl_vars>>

\* Application.process_update for one update e of user u
Deliver(u, e) ==
    LET h == Dispatch(conv[u], e)
    IN  \E pick \in PicksOf(h, e), llm \in OutcomesOf(h) :
            \E r \in {RunHandler(h, u, user_data[u], e, USE_LLM, pick, llm)} :
                /\ CtxKeysAfter(r) <= MaxCtxKeys
                /\ conv' = [conv EXCEPT ![u] = UpdateState(conv[u], r.ret)]
                /\ user_data' = [user_data EXCEPT ![u] = r.ud]
                /\ ev' = [user |-> u, kind |-> e.kind, cmd |-> e.cmd, data |-> e.data,
                          text |-> e.text, handler |-> h, from |-> conv[u],
                          llm |-> IF Rendered(r.out) THEN RewriteCall(USE_LLM, llm)
                                  ELSE "none"]
                /\ out' = r.out
                /\ UNCHANGED <<USE_LLM, xl_vars>>

CmdStart(u) == Deliver(u, Command("start"))
CmdMenu(u) == Deliver(u, Command("menu"))
CmdCancel(u) == Deliver(u, Command("cancel"))
CmdHelp(u) == Deliver(u, Command("help"))

Button(u) == \E d \in Payloads : Deliver(u, CallbackQuery(d))

Text(u) == \E t \in Texts : Deliver(u, TextMessage(t))

Next ==
    \E u \in Users :
        \/ CmdStart(u)
        \/ CmdMenu(u)
        \/ CmdCancel(u)
        \/ CmdHelp(u)
        \/ Button(u)
        \/ Text(u)

Spec == Init /\ [][Next]_vars

(***************************************************************************)
(* The rule engines as pure functions: SpecEngine starts from any Session  *)
(* of EngineSessions and applies generate_by_topic or generate_oracle to   *)
(* it once.  context_vars is empty or holds the three variables of one     *)
(* topic (not always the Session's own), as the parser stores them.        *)
(***************************************************************************)
YearsVals == {Fin(0), Fin(99), Fin(100), Fin(299), Fin(300), Fin(499), Fin(500), NaN}
CashVals == {Fin(0), Fin(299), Fin(300), Fin(599), Fin(600), Inf}
ScoreVals == {Fin(0), Fin(6999), Fin(7000), Fin(8500)}
HoursVals == {Fin(0), Fin(699), Fin(700), Fin(1400)}
DdlVals == {-5, 13, 14}
ExpVals == {Fin(0), Fin(99), Fin(100), Fin(300), Fin(301)}
DrawdownVals == {Fin(799), Fin(800), Fin(2500), Fin(2501), NaN}

EngineContexts ==
    {<< >>}
    \cup {[years |-> y, portfolio |-> p, cash_buffer_months |-> c] :
              y \in YearsVals, p \in BOOLEAN, c \in CashVals}
    \cup {[current_score |-> c, hours_per_week |-> h, ddl_days |-> d] :
              c \in ScoreVals, h \in HoursVals, d \in DdlVals}
    \cup {[exp_years |-> x, max_drawdown_pct |-> d, budget_month |-> Fin(300000)] :
              x \in ExpVals, d \in DrawdownVals}
    \cup {[status |-> <<"U5355", "U8EAB">>, comm_freq_per_week |-> Fin(300),
           distance |-> <<"U540C", "U57CE">>]}
    \cup {[sleep_h |-> Fin(650), sport_freq |-> Fin(100), stress |-> 4]}
    \cup {[goal |-> <<"U6F14", "U8BB2">>, hours_per_week |-> h,
           pain_point |-> <<"U6015">>] : h \in {Fin(500), Fin(1400)}}

EngineMicros ==
    {<< >>,
     [orientation |-> "stable", investment |-> "time"],
     [orientation |-> "break", investment |-> "budget"]}

EngineTopics == {"career", "study", "finance", "love", "health", "growth", "xyz"}

EngineSessions ==
    {[user_id |-> "u1", topic |-> t, question |-> None, time_horizon |-> h,
      micro |-> m, context_vars |-> c] :
         t \in EngineTopics, h \in {None, "6m"}, m \in EngineMicros, c \in EngineContexts}

InitEngine ==
    /\ conv = [u \in Users |-> CHOOSING_TOPIC]
    /\ \E s \in EngineSessions :
           user_data = [u \in Users |-> [session |-> [s EXCEPT !.user_id = u]]]
    /\ USE_LLM = FALSE
    /\ ev = NoEvent
    /\ out = << >>
    /\ XlInit

\* base_text = generate_by_topic(sess)
ApplyEngine(u) ==
    LET sess == user_data[u].session
        base_text == generate_by_topic(sess)
    IN  /\ out = << >>
        /\ out' = <<ResultMsg(base_text, base_text, EngineResult(sess))>>
        /\ ev' = [NoEvent EXCEPT !.user = u, !.handler = "generate_by_topic"]
        /\ UNCHANGED <<conv, user_data, USE_LLM, xl_vars>>

\* base_text = generate_oracle(sess)
ApplyOracle(u) ==
    \E pick \in OraclePicks :
        LET base_text == generate_oracle(user_data[u].session, pick)
        IN  /\ out = << >>
            /\ out' = <<ResultMsg(base_text, base_text, << >>)>>
            /\ ev' = [NoEvent EXCEPT !.user = u, !.handler = "generate_oracle"]
            /\ UNCHANGED <<conv, user_data, USE_LLM, xl_vars>>

NextEngine == \E u \in Users : ApplyEngine(u) \/ ApplyOracle(u)

SpecEngine == InitEngine /\ [][NextEngine]_vars

(***************************************************************************)
(* Vocabulary of the properties.                                           *)
(***************************************************************************)
Sess(u) == user_data[u].session

\* positions of the result messages among the messages of a step
ResultIdx(o) == {i \in 1..Len(o) : o[i].kind = "result"}

ChainStates == {MICRO_Q1, MICRO_Q2, MICRO_Q3, COLLECT_CONTEXT}
FiveStates == {CHOOSING_TOPIC, MICRO_Q1, MICRO_Q2, MICRO_Q3, COLLECT_CONTEXT}
RuleTopics == {"career", "study", "finance", "love", "health", "growth"}

IsButton(e, prefix) == e.kind = "callback" /\ StartsWith(e.data, prefix)

(***************************************************************************)
(* C1.  The conversation advances strictly in the order ChoosingTopic ->   *)
(* MicroQ1 -> MicroQ2 -> MicroQ3 -> CollectingContext.  Every step that    *)
(* enters one of the four later states comes from the state just before it *)
(* in the chain, on the button of that state, and records the choice       *)
(* (topic, time_horizon, micro.orientation, micro.investment); and in each *)
(* state of the chain the button of that state does advance.               *)
(***************************************************************************)
C1_Enters(u) ==
    (conv'[u] # conv[u] /\ conv'[u] \in ChainStates) =>
        /\ ev'.user = u
        /\ \/ /\ conv[u] = CHOOSING_TOPIC /\ conv'[u] = MICRO_Q1
              /\ IsButton(ev', "topic") /\ AfterColon(ev'.data) # "oracle"
              /\ user_data'[u].session.topic = AfterColon(ev'.data)
           \/ /\ conv[u] = MICRO_Q1 /\ conv'[u] = MICRO_Q2
              /\ IsButton(ev', "t")
              /\ user_data'[u].session.time_horizon = AfterColon(ev'.data)
           \/ /\ conv[u] = MICRO_Q2 /\ conv'[u] = MICRO_Q3
              /\ IsButton(ev', "ori")
              /\ user_data'[u].session.micro.orientation = AfterColon(ev'.data)
           \/ /\ conv[u] = MICRO_Q3 /\ conv'[u] = COLLECT_CONTEXT
              /\ IsButton(ev', "inv")
              /\ user_data'[u].session.micro.investment = AfterColon(ev'.data)

C1_Advances(u) ==
    ev'.user = u =>
        /\ (conv[u] = CHOOSING_TOPIC /\ IsButton(ev', "topic")
                /\ AfterColon(ev'.data) # "oracle") => conv'[u] = MICRO_Q1
        /\ (conv[u] = MICRO_Q1 /\ IsButton(ev', "t")) => conv'[u] = MICRO_Q2
        /\ (conv[u] = MICRO_Q2 /\ IsButton(ev', "ori")) => conv'[u] = MICRO_Q3
        /\ (conv[u] = MICRO_Q3 /\ IsButton(ev', "inv")) => conv'[u] = COLLECT_CONTEXT

C1_ChainOrder == [][\A u \in Users : C1_Enters(u) /\ C1_Advances(u)]_vars

C1_Witness ==
    \E u \in Users :
        /\ conv[u] = COLLECT_CONTEXT
        /\ ev.handler = "on_micro_q3"
        /\ Sess(u).topic = "career"
        /\ Sess(u).time_horizon = "1m"
        /\ Sess(u).micro = [orientation |-> "break", investment |-> "budget"]

(***************************************************************************)
(* C2.  A text handled in CollectingContext for a topic with a rule engine *)
(* either parses, and then the step sends exactly one result and returns   *)
(* to ChoosingTopic, or fails as a whole, and then the step sends no       *)
(* result, only the re-prompt, and stays in CollectingContext.  A field    *)
(* that must be numeric and is not makes the text fail ("x, shi, 4" for    *)
(* career, study, finance, health; "3, shi, 4" wherever the second field   *)
(* is numeric).                                                            *)
(***************************************************************************)
C2_Parsed(u) == Cardinality(ResultIdx(out)) = 1 /\ conv[u] = CHOOSING_TOPIC

C2_Failed(u) ==
    /\ ResultIdx(out) = {}
    /\ conv[u] = COLLECT_CONTEXT
    /\ Len(out) = 1 /\ out[1].kind = "reprompt"

C2_ParseOrReprompt ==
    \A u \in Users :
        (ev.user = u /\ ev.handler = "on_collect_context" /\ HasSession(user_data[u])
             /\ Sess(u).topic \in RuleTopics) =>
            /\ C2_Parsed(u) \/ C2_Failed(u)
            /\ (ev.text = TxtBad /\ Sess(u).topic \in {"career", "study", "finance", "health"})
                   => C2_Failed(u)
            /\ (ev.text = TxtCareer /\ Sess(u).topic # "career") => C2_Failed(u)
            /\ (ev.text = TxtCareer /\ Sess(u).topic = "career") => C2_Parsed(u)
            /\ ev.text = TxtStudy => C2_Parsed(u)

C2_Witness ==
    \E u \in Users :
        /\ ev.user = u /\ ev.handler = "on_collect_context" /\ ev.text = TxtBad
        /\ Sess(u).topic = "career"
        /\ C2_Failed(u)

(***************************************************************************)
(* C3.  A callback whose payload is not the kind the current state expects *)
(* (topic:* in ChoosingTopic, t:* in MicroQ1, ori:* in MicroQ2, inv:* in   *)
(* MicroQ3, none elsewhere) changes neither the conversation state nor any *)
(* field of the user's data, and sends nothing.                            *)
(***************************************************************************)
ExpectedPrefix(state) ==
    CASE state = CHOOSING_TOPIC -> "topic"
      [] state = MICRO_Q1 -> "t"
      [] state = MICRO_Q2 -> "ori"
      [] state = MICRO_Q3 -> "inv"
      [] OTHER -> ""

C3_Step ==
    \A u \in Users :
        (ev'.user = u /\ ev'.kind = "callback"
             /\ ~StartsWith(ev'.data, ExpectedPrefix(conv[u]))) =>
            (conv' = conv /\ user_data' = user_data /\ out' = << >>)

C3_UnexpectedCallbackIgnored == [][C3_Step]_vars

C3_Witness ==
    \E u \in Users :
        /\ ev.user = u /\ ev.kind = "callback" /\ ev.data = <<"topic", ":", "study">>
        /\ ev.from = MICRO_Q1 /\ conv[u] = MICRO_Q1
        /\ Sess(u).topic = "career"
        /\ out = << >>

(***************************************************************************)
(* C4.  /cancel received in any of the five states ends the conversation   *)
(* and that step sends no result.                                          *)
(***************************************************************************)
C4_CancelEnds ==
    \A u \in Users :
        (ev.user = u /\ ev.kind = "command" /\ ev.cmd = "cancel" /\ ev.from \in FiveStates) =>
            (conv[u] = END /\ ResultIdx(out) = {})

C4_Witness ==
    \E u \in Users :
        /\ ev.user = u /\ ev.cmd = "cancel" /\ ev.from = COLLECT_CONTEXT
        /\ conv[u] = END

(***************************************************************************)
(* C5.  Choosing topic oracle in ChoosingTopic sends a result in that same *)
(* step and leaves the conversation in ChoosingTopic (no micro question    *)
(* state is entered); the text generate_oracle returns holds exactly one   *)
(* occurrence of one of the four theme strings.                            *)
(***************************************************************************)
ThemeStrings == {OracleThemes[i][1] : i \in 1..Len(OracleThemes)}

ThemeCount(text) ==
    Cardinality({p \in UNION {{<<i, j>> : j \in 1..Len(text[i])} : i \in 1..Len(text)} :
                     text[p[1]][p[2]] \in ThemeStrings})

C5_OracleDirect ==
    \A u \in Users :
        (ev.user = u /\ ev.handler = "on_topic_callback" /\ AfterColon(ev.data) = "oracle") =>
            /\ ev.from = CHOOSING_TOPIC
            /\ conv[u] = CHOOSING_TOPIC
            /\ Cardinality(ResultIdx(out)) = 1
            /\ \A i \in ResultIdx(out) : ThemeCount(out[i].base) = 1

C5_Witness ==
    \E u \in Users :
        /\ ev.user = u /\ ev.handler = "on_topic_callback" /\ AfterColon(ev.data) = "oracle"
        /\ Sess(u).micro = << >> /\ Sess(u).time_horizon = None
        /\ Cardinality(ResultIdx(out)) = 1

(***************************************************************************)
(* C6.  The probability of every rule-engine result lies in [0.05, 0.95],  *)
(* for the six topics with an engine and every Session of EngineSessions.  *)
(***************************************************************************)
EngineResults == {i \in ResultIdx(out) : out[i].res # << >>}

C6_ProbInRange ==
    \A i \in EngineResults : out[i].res.prob >= 500 /\ out[i].res.prob <= 9500

C6_Witness ==
    \E u \in Users, i \in EngineResults :
        /\ Sess(u).topic = "finance"
        /\ DictGet(Sess(u).context_vars, "exp_years", Fin(0)) = Fin(99)
        /\ out[i].res.prob = 4500

(***************************************************************************)
(* C7.  The explanation of every rule-engine result states the baseline,   *)
(* the factor (when there is one) and every adjustment of the computation: *)
(* reading these numbers back from the explanation string, baseline x      *)
(* factor + the adjustments, clamped to [0.05, 0.95], is the reported      *)
(* probability once rounded to two decimals, that is, the reported         *)
(* probability is a hundredth within 0.005 of it (a value exactly halfway  *)
(* between two hundredths may be reported as either: round() follows the   *)
(* binary double there), and it is exactly what the engine's own float     *)
(* arithmetic gives on the stated numbers.                                 *)
(***************************************************************************)
IsNumChar(c) == IsDigit(c) \/ c \in {"+", "-", "."}

\* the maximal runs of number characters of an explanation, in order
RECURSIVE NumRuns(_, _, _, _)
NumRuns(s, i, cur, acc) ==
    IF i > Len(s) THEN (IF cur = << >> THEN acc ELSE Append(acc, cur))
    ELSE IF IsNumChar(s[i]) THEN NumRuns(s, i + 1, Append(cur, s[i]), acc)
    ELSE NumRuns(s, i + 1, << >>, IF cur = << >> THEN acc ELSE Append(acc, cur))

\* the numbers of an explanation, in 1/10000
StatedNumbers(explain) ==
    LET runs == NumRuns(explain, 1, << >>, << >>)
    IN  [i \in 1..Len(runs) |-> 100 * ParseFloat(runs[i]).val.v]

\* baseline x factor + adjustments, clamped, in 1/100000000
Rederived(nums) ==
    LET factor == IF Len(nums) >= 2 THEN nums[2] ELSE 10000
        adjs == IF Len(nums) >= 3 THEN SubSeq(nums, 3, Len(nums)) ELSE << >>
        exact == nums[1] * factor + 10000 * SumSeq(adjs)
    IN  Max2(500 * 10000, Min2(9500 * 10000, exact))

ActionLineCount(text) ==
    Cardinality({i \in 1..Len(text) : text[i] # << >> /\ text[i][1] = "- "})

C8_ThreeActions ==
    /\ \A i \in EngineResults :
           Len(out[i].res.actions) = 3 /\ ActionLineCount(out[i].base) = 3
    /\ ev.handler = "generate_oracle" =>
           \A i \in ResultIdx(out) : ActionLineCount(out[i].base) = 3

C8_Witness ==
    \E u \in Users, i \in EngineResults :
        /\ Sess(u).topic = "career"
        /\ DictGet(Sess(u).micro, "investment", "time") = "budget"
        /\ Len(out[i].res.actions) = 3

(***************************************************************************)
(* C9.  Topics love, health and growth get the generic template engine and *)
(* probability exactly 0.55, 0.52 and 0.53, whatever context_vars and      *)
(* micro hold.                                                             *)
(***************************************************************************)
GenericBaseline(topic) ==
    CASE topic = "love" -> 5500 [] topic = "health" -> 5200 [] topic = "growth" -> 5300

C9_GenericBaselines ==
    \A u \in Users :
        (ev.user = u /\ ev.handler = "generate_by_topic"
             /\ Sess(u).topic \in {"love", "health", "growth"}) =>
            /\ Len(out) = 1 /\ out[1].res # << >>
            /\ out[1].res.prob = GenericBaseline(Sess(u).topic)
            /\ out[1].res.explain = <<"baseline">> \o Fmt2(GenericBaseline(Sess(u).topic))

C9_Witness ==
    \E u \in Users :
        /\ ev.user = u /\ ev.handler = "generate_by_topic"
        /\ Sess(u).topic = "love"
        /\ "years" \in DOMAIN Sess(u).context_vars
        /\ Sess(u).micro # << >>
        /\ out[1].res.prob = 5500

(***************************************************************************)
(* C10.  A well-formed three-field line stores exactly the three typed     *)
(* variables of the topic and leaves every other key as it was: for career *)
(* "3, shi, 4" gives years 3.0, portfolio true, cash_buffer_months 4.0;    *)
(* for study "68, 10, 45" gives current_score 68.0, hours_per_week 10.0    *)
(* and the integer ddl_days 45.                                            *)
(***************************************************************************)
C10_Step ==
    \A u \in Users :
        (ev'.user = u /\ ev'.handler = "on_collect_context" /\ HasSession(user_data[u])) =>
            /\ (ev'.text = TxtCareer /\ Sess(u).topic = "career") =>
                   user_data'[u].session.context_vars =
                       DictUpdate(Sess(u).context_vars,
                                  [years |-> Fin(300), portfolio |-> TRUE,
                                   cash_buffer_months |-> Fin(400)])
            /\ (ev'.text = TxtStudy /\ Sess(u).topic = "study") =>
                   user_data'[u].session.context_vars =
                       DictUpdate(Sess(u).context_vars,
                                  [current_score |-> Fin(6800), hours_per_week |-> Fin(1000),
                                   ddl_days |-> 45])

C10_ParsesExamples == [][C10_Step]_vars

C10_Witness ==
    \E u \in Users :
        /\ ev.user = u /\ ev.handler = "on_collect_context" /\ ev.text = TxtStudy
        /\ Sess(u).topic = "study"
        /\ "years" \in DOMAIN Sess(u).context_vars
        /\ Sess(u).context_vars.ddl_days = 45

(***************************************************************************)
(* The free-text handler on its own: a session of any topic waits in       *)
(* COLLECT_CONTEXT and text lines of one, two and three fields arrive.     *)
(***************************************************************************)
\* "3", "x", "3, 4", "3, <shi>", "3, x" and "3, <word>, 4" for several words
Line1(a) == <<a>>
Line2(a, b) == <<a, ",", " ">> \o b
Line3(a, b, c) == <<a, ",", " ">> \o b \o <<",", " ", c>>

PortfolioWords ==
    {<<"y", "e", "s">>, <<"Y", "e", "s">>, <<"Y", "E", "S">>, <<"y", "E", "s">>,
     <<"y">>, <<"Y">>, <<"U662F">>, <<"U6709">>, <<"U5426">>, <<"n", "o">>}

ParseTexts ==
    {Line1("3"), Line1("x"), Line2("3", <<"4">>), Line2("3", <<"x">>)}
    \cup {Line2("3", w) : w \in {<<"U662F">>, <<"Y">>, <<"n", "o">>}}
    \cup {Line3("3", w, "4") : w \in PortfolioWords}
    \cup {TxtStudy}

ParseTopics == {"career", "study", "finance", "love", "health", "growth", "xyz"}

InitParse ==
    /\ conv = [u \in Users |-> COLLECT_CONTEXT]
    /\ \E t \in ParseTopics :
           user_data = [u \in Users |->
               [session |-> [NewSession(u) EXCEPT
                                 !.topic = t, !.time_horizon = "3m",
                                 !.micro = [orientation |-> "stable",
                                            investment |-> "time"]]]]
    /\ USE_LLM \in BOOLEAN
    /\ ev = NoEvent
    /\ out = << >>
    /\ XlInit

ParseText(u) ==
    /\ conv[u] = COLLECT_CONTEXT
    /\ \E t \in ParseTexts : Deliver(u, TextMessage(t))

NextParse == \E u \in Users : ParseText(u)

SpecParse == InitParse /\ [][NextParse]_vars

(***************************************************************************)
(* C11.  For every topic, a line of one or two fields whose fields convert *)
(* parses: a result is sent, the conversation returns to CHOOSING_TOPIC    *)
(* and each missing trailing field has its default (career: portfolio      *)
(* false, cash_buffer_months 0.0; study: hours 0.0, ddl_days 30; finance:  *)
(* max_drawdown_pct 10.0, budget 0.0; love: frequency 0.0, distance        *)
(* "same city"; health: sport 0.0, stress 3; growth: hours 0.0, pain       *)
(* point "unclear").                                                       *)
(***************************************************************************)
\* the key and the default of each field of a topic, in field order
TopicFields(topic) ==
    CASE topic = "career" ->
           << <<"years", Fin(0)>>, <<"portfolio", FALSE>>,
              <<"cash_buffer_months", Fin(0)>> >>
      [] topic = "study" ->
           << <<"current_score", Fin(0)>>, <<"hours_per_week", Fin(0)>>,
              <<"ddl_days", 30>> >>
      [] topic = "finance" ->
           << <<"exp_years", Fin(0)>>, <<"max_drawdown_pct", Fin(1000)>>,
              <<"budget_month", Fin(0)>> >>
      [] topic = "love" ->
           << <<"status", <<"U672A", "U77E5">> >>, <<"comm_freq_per_week", Fin(0)>>,
              <<"distance", <<"U540C", "U57CE">> >> >>
      [] topic = "health" ->
           << <<"sleep_h", Fin(700)>>, <<"sport_freq", Fin(0)>>, <<"stress", 3>> >>
      [] topic = "growth" ->
           << <<"goal", <<"U81EA", "U6211", "U63D0", "U5347">> >>,
              <<"hours_per_week", Fin(0)>>,
              <<"pain_point", <<"U4E0D", "U660E", "U786E">> >> >>

\* the fields of a topic that must be numbers
NumericFields(topic) ==
    CASE topic = "career" -> {1, 3}
      [] topic \in {"study", "finance", "health"} -> {1, 2, 3}
      [] topic \in {"love", "growth"} -> {2}

FieldCount(text) == 1 + Cardinality({i \in 1..Len(text) : text[i] = ","})

PresentConvert(topic, text) ==
    \A i \in NumericFields(topic) :
        i <= FieldCount(text) => ParseFloat(SplitComma(text)[i]).ok

C11_Case(u) ==
    /\ ev.user = u /\ ev.handler = "on_collect_context"
    /\ HasSession(user_data[u]) /\ Sess(u).topic \in RuleTopics
    /\ FieldCount(ev.text) < 3
    /\ PresentConvert(Sess(u).topic, ev.text)

C11_MissingFieldsDefault ==
    \A u \in Users :
        C11_Case(u) =>
            /\ Rendered(out)
            /\ conv[u] = CHOOSING_TOPIC
            /\ \A i \in (FieldCount(ev.text) + 1)..3 :
                   /\ TopicFields(Sess(u).topic)[i][1] \in DOMAIN Sess(u).context_vars
                   /\ Sess(u).context_vars[TopicFields(Sess(u).topic)[i][1]]
                          = TopicFields(Sess(u).topic)[i][2]

C11_Witness ==
    \E u \in Users :
        /\ C11_Case(u)
        /\ Sess(u).topic = "finance"
        /\ ev.text = Line1("3")
        /\ Sess(u).context_vars.max_drawdown_pct = Fin(1000)

(***************************************************************************)
(* C12.  After a career line is parsed, portfolio is true exactly when the *)
(* second field is an affirmative word in any letter case.                 *)
(***************************************************************************)
AffirmativeAnyCase(tok) == Lower(tok) \in {Lower(w) : w \in AffirmativeWords}

C12_CaseInsensitive ==
    \A u \in Users :
        (/\ ev.user = u /\ ev.handler = "on_collect_context"
         /\ Sess(u).topic = "career" /\ Rendered(out)
         /\ FieldCount(ev.text) >= 2) =>
            Sess(u).context_vars.portfolio
                = AffirmativeAnyCase(Strip(SplitComma(ev.text)[2]))

(***************************************************************************)
(* C13.  In every reachable state the keys of context_vars are variables   *)
(* of the session's current topic only (none when the topic has no         *)
(* variables): no key of a topic handled earlier remains.                  *)
(***************************************************************************)
TopicKeys(topic) ==
    IF topic \in RuleTopics THEN {TopicFields(topic)[i][1] : i \in 1..3} ELSE {}

C13_OnlyCurrentTopicKeys ==
    \A u \in Users :
        HasSession(user_data[u]) =>
            DOMAIN Sess(u).context_vars \subseteq TopicKeys(Sess(u).topic)

(***************************************************************************)
(* C14.  In every reachable state, a conversation in MICRO_Q1, MICRO_Q2,   *)
(* MICRO_Q3 or COLLECT_CONTEXT has a session whose topic is set, and one   *)
(* in COLLECT_CONTEXT has time_horizon, micro.orientation and              *)
(* micro.investment set as well.                                           *)
(***************************************************************************)
C14_AnswersSetBeforeUse ==
    \A u \in Users :
        /\ conv[u] \in ChainStates =>
               HasSession(user_data[u]) /\ Sess(u).topic # None
        /\ conv[u] = COLLECT_CONTEXT =>
               /\ Sess(u).time_horizon # None
               /\ "orientation" \in DOMAIN Sess(u).micro
               /\ "investment" \in DOMAIN Sess(u).micro

C14_Witness ==
    \E u \in Users :
        /\ conv[u] = COLLECT_CONTEXT
        /\ ev.user = u /\ ev.handler = "on_micro_q3"
        /\ Sess(u).topic = "study"
        /\ Sess(u).micro = [orientation |-> "break", investment |-> "budget"]

(***************************************************************************)
(* C15.  A session is discarded when its conversation ends or restarts:    *)
(* right after /cancel and right after /start the user's data holds no     *)
(* session or a fresh, empty one, and so does a conversation re-entered    *)
(* with /menu.                                                             *)
(***************************************************************************)
FreshOrNone(u) == ~HasSession(user_data[u]) \/ Sess(u) = NewSession(u)

C15_SessionDiscarded ==
    \A u \in Users :
        /\ (ev.user = u /\ ev.handler \in {"cancel", "start"}) => FreshOrNone(u)
        /\ (ev.user = u /\ ev.handler = "menu" /\ ev.from = END) => FreshOrNone(u)

(***************************************************************************)
(* C16.  When the rewriting step is unavailable (the gate is off) or the   *)
(* rewriting call fails, the text sent is the renderer's text unchanged.   *)
(* C16_ReturnsBaseUnchanged states it as written: the text equals the base *)
(* text.  C16_BaseIsPrefix is what the code does: the base text comes      *)
(* first, whole and unaltered, followed by a blank line and one line of    *)
(* notice.                                                                 *)
(***************************************************************************)
Unavailable == ~USE_LLM \/ ev.llm = "fail"

C16_ReturnsBaseUnchanged ==
    Unavailable => \A i \in ResultIdx(out) : out[i].text = out[i].base

C16_BaseIsPrefix ==
    Unavailable =>
        \A i \in ResultIdx(out) :
            /\ Len(out[i].text) = Len(out[i].base) + 2
            /\ SubSeq(out[i].text, 1, Len(out[i].base)) = out[i].base
            /\ out[i].text[Len(out[i].base) + 1] = << >>
            /\ out[i].text[Len(out[i].base) + 2] # << >>

C16_Witness ==
    /\ USE_LLM /\ ev.llm = "fail" /\ ev.handler = "on_collect_context"
    /\ \E i \in ResultIdx(out) : out[i].res # << >> /\ Len(out[i].text) > 2

(***************************************************************************)
(* C17.  Whatever the rewriting service returns, the text sent for a       *)
(* rule-engine result carries the probability of the result and its three  *)
(* action items.                                                           *)
(***************************************************************************)
ContainsRun(line, run) ==
    \E k \in 1..Len(line) :
        k + Len(run) - 1 <= Len(line) /\ SubSeq(line, k, k + Len(run) - 1) = run

Carries(text, res) ==
    /\ \E i \in 1..Len(text) : ContainsRun(text[i], Fmt2(res.prob))
    /\ \A a \in 1..Len(res.actions) :
           \E i \in 1..Len(text) : \E j \in 1..Len(text[i]) : text[i][j] = res.actions[a]

C17_RewriteKeepsFacts ==
    \A i \in EngineResults : Carries(out[i].text, out[i].res)

(***************************************************************************)
(* C19.  The gate USE_LLM never changes, and while it is off no handler    *)
(* calls the rewriting service and every result sent begins with the whole *)
(* rule-based text.                                                        *)
(***************************************************************************)
C19_Step ==
    /\ USE_LLM' = USE_LLM
    /\ ~USE_LLM =>
           /\ ev'.llm = "none"
           /\ \A i \in ResultIdx(out') :
                  /\ Len(out'[i].text) >= Len(out'[i].base)
                  /\ SubSeq(out'[i].text, 1, Len(out'[i].base)) = out'[i].base

C19_GateFixed == [][C19_Step]_vars

C19_Witness ==
    /\ ~USE_LLM /\ ev.handler = "on_topic_callback" /\ ev.llm = "none"
    /\ \E i \in ResultIdx(out) : ThemeCount(out[i].text) = 1

(***************************************************************************)
(* The rewriting call in flight.  client.chat.completions.create is a      *)
(* blocking call inside the handler: from the moment it starts to the      *)
(* moment it returns or raises the handler is suspended and, the call      *)
(* being synchronous, no other update is processed.  Here a handler that   *)
(* renders with the gate on takes two steps.  HandlerToCall runs it up to  *)
(* the call: the session is updated, the messages before the result are    *)
(* sent, and ev holds the suspended handler with its local base_text       *)
(* (ev.llm = "pending").  CallEnds runs it from the outcome of the call to *)
(* its return.  The call ends: the service answers, or the client raises   *)
(* (an API or connection error, or its request timeout); this is the weak  *)
(* fairness of CallEnds.                                                   *)
(***************************************************************************)
Pending == ev.llm = "pending"

LiveUpdates ==
    {TextMessage(t) : t \in Texts}
    \cup {CallbackQuery(<<"topic", ":", "oracle">>), Command("menu"), Command("cancel")}

LiveTopics == {"career", "study", "love", "xyz"}

InitLive ==
    /\ conv = [u \in Users |-> COLLECT_CONTEXT]
    /\ \E t \in LiveTopics :
           user_data = [u \in Users |->
               [session |-> [NewSession(u) EXCEPT
                                 !.topic = t, !.time_horizon = "1m",
                                 !.micro = [orientation |-> "break",
                                            investment |-> "budget"]]]]
    /\ USE_LLM \in BOOLEAN
    /\ ev = NoEvent
    /\ out = << >>
    /\ XlInit

\* the messages a handler sends before its result, and the result
ResultAt(o) == CHOOSE i \in 1..Len(o) : o[i].kind = "result"
BeforeResult(o) == SubSeq(o, 1, ResultAt(o) - 1)

\* the handler of update e runs up to its rewriting call
HandlerToCall(u) ==
    /\ ~Pending
    /\ USE_LLM
    /\ \E e \in LiveUpdates :
           \E pick \in PicksOf(Dispatch(conv[u], e), e) :
               \E r \in {RunHandler(Dispatch(conv[u], e), u, user_data[u], e,
                                    USE_LLM, pick, "same")} :
                   /\ Rendered(r.out)
                   /\ CtxKeysAfter(r) <= MaxCtxKeys
                   /\ user_data' = [user_data EXCEPT ![u] = r.ud]
                   /\ out' = BeforeResult(r.out)
                   /\ ev' = [user |-> u, kind |-> e.kind, cmd |-> e.cmd,
                             data |-> e.data, text |-> e.text,
                             handler |-> Dispatch(conv[u], e), from |-> conv[u],
                             llm |-> "pending", base_text |-> r.out[ResultAt(r.out)].base]
                   /\ UNCHANGED <<conv, USE_LLM, xl_vars>>

\* the rest of a suspended handler, from the return of the call
ResumeHandler(h, ud, base_text, use_llm, llm) ==
    IF h = "on_collect_context"
    THEN SendResult(ud, ud.session, base_text, use_llm, llm)
    ELSE SendOracle(ud, ud.session, base_text, use_llm, llm)

CallEnds ==
    /\ Pending
    /\ \E llm \in LLMOutcomes :
           \E r \in {ResumeHandler(ev.handler, user_data[ev.user], ev.base_text,
                                   USE_LLM, llm)} :
               /\ conv' = [conv EXCEPT ![ev.user] = UpdateState(conv[ev.user], r.ret)]
               /\ user_data' = [user_data EXCEPT ![ev.user] = r.ud]
               /\ out' = r.out
               /\ ev' = [user |-> ev.user, kind |-> ev.kind, cmd |-> ev.cmd,
                         data |-> ev.data, text |-> ev.text, handler |-> ev.handler,
                         from |-> ev.from, llm |-> RewriteCall(USE_LLM, llm)]
               /\ UNCHANGED <<USE_LLM, xl_vars>>

\* a handler that makes no rewriting call runs in one step
HandlerAtOnce(u) ==
    /\ ~Pending
    /\ \E e \in LiveUpdates :
           /\ Deliver(u, e)
           /\ ~(USE_LLM /\ Rendered(out'))

NextLive == CallEnds \/ \E u \in Users : HandlerToCall(u) \/ HandlerAtOnce(u)

SpecLive == InitLive /\ [][NextLive]_vars /\ WF_vars(CallEnds)

(***************************************************************************)
(* C18.  Once a handler has parsed its line (or taken the oracle button)   *)
(* and started the rewriting call, the conversation eventually sends a     *)
(* result and is back in CHOOSING_TOPIC, whether the service answers or    *)
(* the call fails or times out; on a failure the result sent begins with   *)
(* the rendered base text.                                                 *)
(***************************************************************************)
FallsBack ==
    ev.llm = "fail" =>
        \A i \in ResultIdx(out) : SubSeq(out[i].text, 1, Len(out[i].base)) = out[i].base

Users2 == {"u1", "u2"}

MultiUpdates ==
    {Command("start"), Command("cancel"),
     CallbackQuery(<<"topic", ":", "career">>), CallbackQuery(<<"topic", ":", "love">>),
     CallbackQuery(<<"t", ":", "1m">>), CallbackQuery(<<"ori", ":", "stable">>),
     CallbackQuery(<<"inv", ":", "time">>), TextMessage(TxtCareer)}

InitMulti ==
    /\ conv = [u \in Users2 |-> END]
    /\ user_data = [u \in Users2 |-> << >>]
    /\ USE_LLM \in BOOLEAN
    /\ ev = NoEvent
    /\ out = << >>
    /\ XlInit

NextMulti == \E u \in Users2 : \E e \in MultiUpdates : Deliver(u, e)

SpecMulti == InitMulti /\ [][NextMulti]_vars

(***************************************************************************)
(* C20.  Handling an update of one user leaves the conversation state and  *)
(* the user_data of every other user as they were, and the Session stored  *)
(* for a user is that user's own; what the step does to its own user is    *)
(* what the handler computes from that user's state and user_data alone.   *)
(***************************************************************************)
OthersUntouched ==
    \A b \in Users2 :
        b # ev'.user => conv'[b] = conv[b] /\ user_data'[b] = user_data[b]

OwnSession ==
    \A b \in Users2 :
        HasSession(user_data'[b]) => user_data'[b].session.user_id = b

AsIfAlone ==
    \E pick \in OraclePicks, llm \in LLMOutcomes :
        \E r \in {RunHandler(ev'.handler, ev'.user, user_data[ev'.user],
                             [kind |-> ev'.kind, cmd |-> ev'.cmd, data |-> ev'.data,
                              text |-> ev'.text], USE_LLM, pick, llm)} :
            /\ ev'.handler = Dispatch(conv[ev'.user], [kind |-> ev'.kind, cmd |-> ev'.cmd,
                                                       data |-> ev'.data, text |-> ev'.text])
            /\ conv'[ev'.user] = UpdateState(conv[ev'.user], r.ret)
            /\ user_data'[ev'.user] = r.ud
            /\ out' = r.out

C21_Case(u) ==
    /\ ev'.user = u /\ ev'.handler = "on_collect_context"
    /\ HasSession(user_data[u]) /\ Sess(u).topic \notin RuleTopics

C21_Step ==
    \A u \in Users :
        C21_Case(u) =>
            /\ Len(out') = 1 /\ out'[1].kind = "unsupported"
            /\ ResultIdx(out') = {}
            /\ user_data'[u] = user_data[u]
            /\ conv'[u] = CHOOSING_TOPIC

C21_UnsupportedTopic == [][C21_Step]_vars

C21_Witness ==
    \E u \in Users :
        /\ ev.user = u /\ ev.handler = "on_collect_context" /\ ev.from = COLLECT_CONTEXT
        /\ ev.text = TxtCareer
        /\ Sess(u).topic = "xyz" /\ Sess(u).context_vars # << >>
        /\ Len(out) = 1 /\ out[1].kind = "unsupported"
        /\ conv[u] = CHOOSING_TOPIC

(***************************************************************************)
(* C22.  In every reachable state the topic of a session is unset or one   *)
(* of the seven topics of TOPICS, and its time_horizon is unset or one of  *)
(* 1m, 3m, 6m, whatever callback payloads are delivered.                   *)
(***************************************************************************)
TopicNames == RuleTopics \cup {"oracle"}
Horizons == {"1m", "3m", "6m"}

C22_EnumeratedValues ==
    \A u \in Users :
        HasSession(user_data[u]) =>
            /\ Sess(u).topic \in TopicNames \cup {None}
            /\ Sess(u).time_horizon \in Horizons \cup {None}

(***************************************************************************)
(* Rounds.  After a result the machine is back in CHOOSING_TOPIC with the  *)
(* session of the round just ended: time_horizon, micro and context_vars   *)
(* are not cleared.  Two conversations receive the same updates, step by   *)
(* step, with the same outcome of the rewriting call: that of "u1" has     *)
(* ended a round before, that of "u2" comes from /start.  out holds the    *)
(* messages sent to "u1" followed by those sent to "u2".                   *)
(***************************************************************************)
EarlierRound(topic, rawtext) ==
    [NewSession("u1") EXCEPT !.topic = topic, !.time_horizon = "1m",
                             !.micro = [orientation |-> "break", investment |-> "budget"],
                             !.context_vars = ParseContext(topic, rawtext).upd]

EarlierRounds ==
    {EarlierRound("career", Line3("9", <<"n", "o">>, "0")),
     EarlierRound("study", Line3("5", <<"2">>, "9"))}

\* the answers of the later round differ from those the earlier one left
RoundPayloads ==
    {<<"topic", ":", "career">>, <<"topic", ":", "study">>, <<"topic", ":", "love">>,
     <<"topic", ":", "oracle">>, <<"t", ":", "9m">>, <<"ori", ":", "stable">>,
     <<"inv", ":", "time">>}

RoundUpdates ==
    {CallbackQuery(d) : d \in RoundPayloads} \cup {TextMessage(t) : t \in Texts}
    \cup {Command("menu")}

InitRounds ==
    /\ conv = [u \in Users2 |-> CHOOSING_TOPIC]
    /\ \E s \in EarlierRounds :
           user_data = [u \in Users2 |->
               [session |-> IF u = "u1" THEN s ELSE NewSession(u)]]
    /\ USE_LLM \in BOOLEAN
    /\ ev = NoEvent
    /\ out = << >>
    /\ XlInit

\* the same update, and the same choices left open, in both conversations
Both(e) ==
    \E pick \in PicksOf(Dispatch(conv["u1"], e), e),
       llm \in OutcomesOf(Dispatch(conv["u1"], e)) :
        \E r1 \in {RunHandler(Dispatch(conv["u1"], e), "u1", user_data["u1"], e,
                              USE_LLM, pick, llm)},
           r2 \in {RunHandler(Dispatch(conv["u2"], e), "u2", user_data["u2"], e,
                              USE_LLM, pick, llm)} :
            /\ CtxKeysAfter(r1) <= MaxCtxKeys
            /\ conv' = [u \in Users2 |->
                            IF u = "u1" THEN UpdateState(conv[u], r1.ret)
                            ELSE UpdateState(conv[u], r2.ret)]
            /\ user_data' = [u \in Users2 |-> IF u = "u1" THEN r1.ud ELSE r2.ud]
            /\ ev' = [user |-> "u1", kind |-> e.kind, cmd |-> e.cmd, data |-> e.data,
                      text |-> e.text, handler |-> Dispatch(conv["u1"], e),
                      from |-> conv["u1"],
                      llm |-> IF Rendered(r1.out) THEN RewriteCall(USE_LLM, llm)
                              ELSE "none"]
            /\ out' = r1.out \o r2.out
            /\ UNCHANGED <<USE_LLM, xl_vars>>

NextRounds == \E e \in RoundUpdates : Both(e)

SpecRounds == InitRounds /\ [][NextRounds]_vars

(***************************************************************************)
(* C23.  What a round sends (the probability, explanation and actions of   *)
(* its result, and every other message) depends only on the topic, the     *)
(* three answers and the text line of that round: a conversation that      *)
(* still holds time_horizon, micro and context_vars of an earlier round    *)
(* sends, on the same updates, the same messages and is in the same state  *)
(* as one that holds none.                                                 *)
(***************************************************************************)
HalfOut == Len(out) \div 2

C23_RoundInputsOnly ==
    /\ Len(out) = 2 * HalfOut
    /\ \A i \in 1..HalfOut : out[i] = out[HalfOut + i]
    /\ conv["u1"] = conv["u2"]

C23_Witness ==
    /\ ev.handler = "on_collect_context" /\ ev.text = TxtCareer
    /\ Sess("u1").topic = "career" /\ Sess("u1").time_horizon = "9m"
    /\ "current_score" \in DOMAIN Sess("u1").context_vars
    /\ "current_score" \notin DOMAIN Sess("u2").context_vars
    /\ Len(out) = 6 /\ out[2].kind = "result" /\ out[2].res # << >>
    /\ out[2].res = out[5].res

(***************************************************************************)
(* C24.  A line whose parse fails (a field that is there and must be a     *)
(* number is none) changes nothing: the handler sends the re-prompt only,  *)
(* the session is what it was, context_vars included, with no field of    *)
(* the line stored, and the conversation stays in COLLECT_CONTEXT; and     *)
(* every step that sends the re-prompt leaves the session as it was.       *)
(***************************************************************************)
C24_Text(u) ==
    /\ ev'.user = u /\ ev'.handler = "on_collect_context" /\ HasSession(user_data[u])

Reprompted(o) == Len(o) = 1 /\ o[1].kind = "reprompt"

C24_Step ==
    \A u \in Users :
        C24_Text(u) =>
            /\ (Sess(u).topic \in RuleTopics /\ ~PresentConvert(Sess(u).topic, ev'.text))
                   => Reprompted(out')
            /\ Reprompted(out') =>
                   /\ user_data'[u] = user_data[u]
                   /\ conv'[u] = COLLECT_CONTEXT

C24_FailedParseNoChange == [][C24_Step]_vars

\* a line of two fields whose first converts and whose second does not
C24_Witness ==
    \E u \in Users :
        /\ ev.user = u /\ ev.handler = "on_collect_context"
        /\ ev.text = Line2("3", <<"x">>)
        /\ Sess(u).topic = "study" /\ Sess(u).context_vars = << >>
        /\ Reprompted(out) /\ conv[u] = COLLECT_CONTEXT

(***************************************************************************)
(* trans_excel.py.  A cell value is a string (a sequence of characters),   *)
(* a number or None.  The tokenizer (tiktoken) and the model are outside   *)
(* the program: count_tokens counts one token for each character of the    *)
(* model's strings, and a model call has an outcome the program does not   *)
(* determine: it raises, or it returns some content.  MAX_TOKENS is 200000 *)
(* in the source (and at least 10000 when set from the streamlit form);    *)
(* the model scales the cap and the texts down together, so that a run of  *)
(* a few cells reaches it.                                                 *)
(***************************************************************************)
MAX_TOKENS == 8

MaxCells == 2

StrCell(s) == [type |-> "str", s |-> s, n |-> 0]
NumCell(n) == [type |-> "num", s |-> << >>, n |-> n]
NoneCell == [type |-> "none", s |-> << >>, n |-> 0]

AsciiLetters ==
    {"a", "b", "c", "d", "e", "f", "g", "h", "i", "j", "k", "l", "m",
     "n", "o", "p", "q", "r", "s", "t", "u", "v", "w", "x", "y", "z",
     "A", "B", "C", "D", "E", "F", "G", "H", "I", "J", "K", "L", "M",
     "N", "O", "P", "Q", "R", "S", "T", "U", "V", "W", "X", "Y", "Z"}

\* re.search(r'[a-zA-Z]', text)
HasAsciiLetter(s) == \E i \in 1..Len(s) : s[i] \in AsciiLetters

\* len(encoding.encode(text))
count_tokens(text) == Len(text)

\* f"{text}\n<dash><dash>only into Chinese:": the text, a newline and the
\* instruction
Prompt(text) == text \o <<"NL", "U2014U2014U4EC5U8BD1U4E3AU4E2DU6587UFF1A">>

\* "[<limit reached>]": no ASCII letter in it
LimitMarker == <<"[", "U5DF2", "U8FBE", "U5230", "U7FFB", "U8BD1", "U4E0A", "U9650", "]">>

\* f"[<error>]: {e}"
ErrorMarker == <<"[", "U9519", "U8BEF", "]", ":", " ", "e", "r", "r">>

\* what client.chat.completions.create does: it raises (also: the content it
\* returns is None, and count_tokens raises on it), or it returns a content
Raises == [ok |-> FALSE, content |-> << >>]
Returns(content) == [ok |-> TRUE, content |-> content]

Contents == {<<"U597D">>, <<"U4F60", "U597D", "U5417">>}

Outcomes == {Raises} \cup {Returns(c) : c \in Contents}

CacheKey(text, ctx) == <<text, ctx>>

\* translation_cache[cache_key] = result
CachePut(cache, key, result) ==
    [k \in (DOMAIN cache) \cup {key} |-> IF k = key THEN result ELSE cache[k]]

InputTokens(text, ctx) == count_tokens(Prompt(text)) + count_tokens(ctx)

\* a translate_text without lines 103-104: it sends a text without letters to
\* the model as well; C27 fails of it
translate_text_noskip(text, ctx, used, cache, outcome) ==
    IF Strip(text) = << >>
    THEN [ret |-> text, used |-> used, cache |-> cache, how |-> "empty"]
    ELSE IF CacheKey(text, ctx) \in DOMAIN cache
    THEN [ret |-> cache[CacheKey(text, ctx)], used |-> used, cache |-> cache,
          how |-> "cache"]
    ELSE IF used + InputTokens(text, ctx) > MAX_TOKENS
    THEN [ret |-> LimitMarker, used |-> used, cache |-> cache, how |-> "limit"]
    ELSE IF outcome.ok
    THEN [ret |-> outcome.content,
          used |-> used + InputTokens(text, ctx) + count_tokens(outcome.content),
          cache |-> CachePut(cache, CacheKey(text, ctx), outcome.content),
          how |-> "call_ok"]
    ELSE [ret |-> ErrorMarker, used |-> used, cache |-> cache, how |-> "call_fail"]

\* a translate_text without lines 108-109: it asks the model again for a pair
\* it has translated; C26 fails of it
translate_text_nocache(text, ctx, used, cache, outcome) ==
    IF Strip(text) = << >>
    THEN [ret |-> text, used |-> used, cache |-> cache, how |-> "empty"]
    ELSE IF ~HasAsciiLetter(text)
    THEN [ret |-> text, used |-> used, cache |-> cache, how |-> "noletter"]
    ELSE IF used + InputTokens(text, ctx) > MAX_TOKENS
    THEN [ret |-> LimitMarker, used |-> used, cache |-> cache, how |-> "limit"]
    ELSE IF outcome.ok
    THEN [ret |-> outcome.content,
          used |-> used + InputTokens(text, ctx) + count_tokens(outcome.content),
          cache |-> CachePut(cache, CacheKey(text, ctx), outcome.content),
          how |-> "call_ok"]
    ELSE [ret |-> ErrorMarker, used |-> used, cache |-> cache, how |-> "call_fail"]

\* lines 92-136, for a text that is a string (process_workbook passes no
\* other): the value returned, used_tokens and translation_cache afterwards,
\* and the branch taken
translate_text(text, ctx, used, cache, outcome) ==
    IF Strip(text) = << >>
    THEN [ret |-> text, used |-> used, cache |-> cache, how |-> "empty"]
    ELSE IF ~HasAsciiLetter(text)
    THEN [ret |-> text, used |-> used, cache |-> cache, how |-> "noletter"]
    ELSE IF CacheKey(text, ctx) \in DOMAIN cache
    THEN [ret |-> cache[CacheKey(text, ctx)], used |-> used, cache |-> cache,
          how |-> "cache"]
    ELSE IF used + InputTokens(text, ctx) > MAX_TOKENS
    THEN [ret |-> LimitMarker, used |-> used, cache |-> cache, how |-> "limit"]
    ELSE IF outcome.ok
    THEN [ret |-> outcome.content,
          used |-> used + InputTokens(text, ctx) + count_tokens(outcome.content),
          cache |-> CachePut(cache, CacheKey(text, ctx), outcome.content),
          how |-> "call_ok"]
    ELSE [ret |-> ErrorMarker, used |-> used, cache |-> cache, how |-> "call_fail"]

(***************************************************************************)
(* Inputs: the sheets a run may load, and what detect_sheet_context        *)
(* returns for them (the model's one sentence, or the default for an empty *)
(* answer).                                                                *)
(***************************************************************************)
CellValues ==
    {NoneCell, NumCell(7), StrCell(<< >>), StrCell(<<" ", " ">>),
     StrCell(<<"U4F60", "1">>), StrCell(<<"o", "k">>), StrCell(<<"H", "i", "!">>)}

RECURSIVE SheetsOf(_)
SheetsOf(n) ==
    IF n = 0 THEN {<< >>}
    ELSE SheetsOf(n - 1)
         \cup {Append(w, c) : w \in {v \in SheetsOf(n - 1) : Len(v) = n - 1},
                              c \in CellValues}

Workbooks == SheetsOf(MaxCells)

Contexts == {<<"U901A", "U7528">>, <<"U4EF7">>}

InitExcel ==
    /\ XlInit
    /\ conv = [u \in Users |-> END]
    /\ user_data = [u \in Users |-> << >>]
    /\ USE_LLM = FALSE
    /\ ev = NoEvent
    /\ out = << >>

\* process_workbook, lines 150-167: the count is reset, the sheet loaded and
\* its context detected; the loop starts at the first cell
StartRun ==
    /\ pos = 0
    /\ \E wb \in Workbooks, ctx \in Contexts :
           /\ used_tokens' = 0
           /\ cells' = wb
           /\ task_context' = ctx
           /\ pos' = 1
           /\ last' = [how |-> "start", cell |-> 0, wb |-> wb]
    /\ UNCHANGED <<translation_cache, vars>>

\* detect_sheet_context raises (its model call is in no try): the run ends
\* at line 157, after the reset of the count
DetectFails ==
    /\ pos = 0
    /\ used_tokens' = 0
    /\ last' = [how |-> "detect_fail", cell |-> 0, wb |-> << >>]
    /\ cells' = << >>
    /\ UNCHANGED <<translation_cache, task_context, pos, vars>>

\* lines 175-176: the break leaves the loop
NextPos(used) ==
    IF used >= MAX_TOKENS THEN Len(cells) + 1 ELSE pos + 1

\* one pass of the loop body, lines 168-176, on a cell that holds a string
TranslateCell ==
    /\ pos \in 1..Len(cells)
    /\ cells[pos].type = "str"
    /\ \E outcome \in Outcomes :
           \E r \in {translate_text(cells[pos].s, task_context, used_tokens,
                                    translation_cache, outcome)} :
               /\ cells' = [cells EXCEPT ![pos] = StrCell(r.ret)]
               /\ used_tokens' = r.used
               /\ translation_cache' = r.cache
               /\ pos' = NextPos(r.used)
               /\ last' = [how |-> r.how, cell |-> pos, wb |-> last.wb]
    /\ UNCHANGED <<task_context, vars>>

\* one pass of the loop body on a cell that holds no string
PassCell ==
    /\ pos \in 1..Len(cells)
    /\ cells[pos].type # "str"
    /\ pos' = NextPos(used_tokens)
    /\ last' = [how |-> "notstr", cell |-> pos, wb |-> last.wb]
    /\ UNCHANGED <<cells, used_tokens, translation_cache, task_context, vars>>

\* lines 178-190: the loop is over, the workbook is written out and the
\* function returns; wb and all_cells are locals and go with it
SaveWorkbook ==
    /\ pos = Len(cells) + 1
    /\ cells' = << >>
    /\ pos' = 0
    /\ last' = [how |-> "saved", cell |-> 0, wb |-> << >>]
    /\ UNCHANGED <<used_tokens, translation_cache, task_context, vars>>

NextExcel == StartRun \/ DetectFails \/ TranslateCell \/ PassCell \/ SaveWorkbook

SpecExcel == InitExcel /\ [][NextExcel]_xl_vars

(***************************************************************************)
(* C25.  During a run used_tokens never exceeds MAX_TOKENS, and once it    *)
(* has reached MAX_TOKENS no step of that run calls the model.             *)
(***************************************************************************)
ModelCall(how) == how \in {"call_ok", "call_fail"}

WithinCap == used_tokens' <= MAX_TOKENS

NoCallAtCap ==
    (used_tokens >= MAX_TOKENS /\ pos \in 1..Len(cells)) => ~ModelCall(last'.how)

C25_TokenCap == [][WithinCap /\ NoCallAtCap]_xl_vars

(***************************************************************************)
(* C26.  A pair (text, task_context) that has been translated is answered  *)
(* from translation_cache: the cell gets the cached string, no model call  *)
(* is made and used_tokens and the cache stay as they are.  A call is made *)
(* only for a pair the cache does not hold, and when it succeeds the cache *)
(* gains that pair with the content returned; a call that fails and a      *)
(* refusal at the cap store nothing; no entry of the cache ever changes.   *)
(***************************************************************************)
Translatable(c) == c.type = "str" /\ Strip(c.s) # << >> /\ HasAsciiLetter(c.s)

KeyAt(p) == CacheKey(cells[p].s, task_context)

C26_Step ==
    /\ \A k \in DOMAIN translation_cache :
           k \in DOMAIN translation_cache' /\ translation_cache'[k] = translation_cache[k]
    /\ (pos \in 1..Len(cells) /\ Translatable(cells[pos])) =>
           /\ KeyAt(pos) \in DOMAIN translation_cache =>
                  /\ last'.how = "cache"
                  /\ cells'[pos].s = translation_cache[KeyAt(pos)]
                  /\ used_tokens' = used_tokens
                  /\ translation_cache' = translation_cache
           /\ last'.how = "call_ok" =>
                  /\ KeyAt(pos) \notin DOMAIN translation_cache
                  /\ DOMAIN translation_cache' = DOMAIN translation_cache \cup {KeyAt(pos)}
                  /\ translation_cache'[KeyAt(pos)] = cells'[pos].s
           /\ last'.how \in {"call_fail", "limit"} =>
                  /\ translation_cache' = translation_cache
                  /\ cells'[pos].s \in {ErrorMarker, LimitMarker}

C26_CachedOnce == [][C26_Step]_xl_vars

\* the second cell of a sheet holds the text of the first: one call, then the
\* cache
C26_Witness ==
    /\ last.how = "cache" /\ last.cell = 2
    /\ last.wb[1] = last.wb[2]
    /\ cells[1] = cells[2] /\ cells[2].s \in Contents
    /\ Cardinality(DOMAIN translation_cache) = 1

(***************************************************************************)
(* C27.  A cell that holds no string, a string that is empty or white      *)
(* space only, or a string without an ASCII letter keeps its value: the    *)
(* pass over it calls no model and changes neither used_tokens nor the     *)
(* cache; a pass changes no cell but its own; and at every point of a run  *)
(* the cells the loop has not visited, those left when it stops at the cap *)
(* included, hold what the sheet held when it was loaded.                  *)
(***************************************************************************)
Visited(j) == j <= last.cell

C27_Kept ==
    pos > 0 =>
        /\ Len(cells) = Len(last.wb)
        /\ \A j \in 1..Len(cells) :
               (~Visited(j) \/ ~Translatable(last.wb[j])) => cells[j] = last.wb[j]

C27_Pass ==
    pos \in 1..Len(cells) =>
        /\ \A j \in 1..Len(cells) : j # pos => cells'[j] = cells[j]
        /\ ~Translatable(cells[pos]) =>
               /\ cells' = cells
               /\ used_tokens' = used_tokens
               /\ translation_cache' = translation_cache
               /\ last'.how \in {"notstr", "empty", "noletter"}

C27_UntranslatedCellsKept == [][C27_Pass /\ C27_Kept']_xl_vars

\* the loop stopped at the cap on the first cell of a sheet: the second, a
\* text with letters, is as it was loaded; so is a first cell without letters
C27_Witness ==
    /\ pos = Len(cells) + 1 /\ Len(cells) = 2
    /\ last.cell = 1 /\ used_tokens >= MAX_TOKENS
    /\ Translatable(cells[2]) /\ cells[2] = last.wb[2]

C27_WitnessSkipped ==
    /\ pos = 3 /\ Len(cells) = 2 /\ last.how = "noletter"
    /\ cells = last.wb /\ used_tokens = 0

====
